---- MODULE Spec2Model ----
(***************************************************************************)
(* Structural chunking engine of SmartContractSecurityMLProject.           *)
(*                                                                         *)
(*   mini_split      testM10CL.py:137-294 / chunkDivision.py:57-204        *)
(*   chunk builder   testM10CL.chunk_contract (342-472) and the script     *)
(*                   loop of chunkDivision.py (261-396)                    *)
(*                                                                         *)
(* A source line is the sequence of its lexemes (whitespace-separated      *)
(* words and braces).  The tokenizer is an external capability; it is      *)
(* modelled as the lexeme count, so the token count of joined lines is the *)
(* sum of the per-line counts.                                             *)
(***************************************************************************)
EXTENDS Integers, Sequences, FiniteSets, TLC

VARIABLES
    \* ---- inputs of one chunk-builder run
    impl,                     \* "script" (chunkDivision.py) or "audit" (testM10CL.py)
    sol_lines,                \* the source file, 1-indexed
    element_ranges,           \* elements sorted by start, each with its modifiers
    max_tokens,
    \* ---- locals of the chunk-builder loop
    chunks,
    current_chunk,
    current_chunk_lines_idx,
    current_tokens,
    chunk_id,
    line_idx,
    element_idx,              \* 0-based, as in the source
    sub_chunks_final,
    flushed_ref,              \* position in chunks of the dict that holds the very list
                              \* objects current_chunk / current_chunk_lines_idx, 0 if none
    pc,                       \* "loop" | "done" | "idle"
    \* ---- one mini_split call scanned line by line
    func_lines,
    ms,                       \* the locals of mini_split
    ms_call,                  \* the arguments chunk_id and base_start_line
    ms_i,                     \* 0-based index of the next line (enumerate)
    ms_pc,                    \* "scan" | "done" | "idle"
    \* ---- one to_consecutive_ranges call
    codec,                    \* its argument and locals
    \* ---- one run of the program around the chunk builder
    inputs,                   \* the contracts to chunk: splitContracts.jsonl / contracts/
    contract_idx,             \* contracts taken from the input so far
    f_out,                    \* the records written so far
    run_pc,                   \* "start" | "next" | "chunking" | "finished" | "aborted" | "idle"
    \* ---- the sub-chunk matching loop of fillChunksWithCode.py, for one labeled chunk
    fill                      \* code_chunk["sub_chunks"], sub_chunks_label, used_idx, out_f

vars == <<impl, sol_lines, element_ranges, max_tokens, chunks, current_chunk,
          current_chunk_lines_idx, current_tokens, chunk_id, line_idx,
          element_idx, sub_chunks_final, flushed_ref, pc,
          func_lines, ms, ms_call, ms_i, ms_pc,
          codec, inputs, contract_idx, f_out, run_pc, fill>>

builderVars == <<impl, sol_lines, element_ranges, chunks, current_chunk,
                 current_chunk_lines_idx, current_tokens, chunk_id, line_idx,
                 element_idx, sub_chunks_final, flushed_ref, pc>>

miniVars == <<func_lines, ms, ms_call, ms_i, ms_pc>>

codecVars == <<codec>>

runVars == <<inputs, contract_idx, f_out, run_pc>>

fillVars == <<fill>>

-----------------------------------------------------------------------------
(* Bounds of the model *)

MaxBody == 4          \* body lines of a function handed to mini_split
MaxTokens == 6        \* largest max_tokens handed to mini_split
FileLen == 4          \* lines of a source file handed to the chunk builder
MaxModLen == 2        \* lines of a modifier declaration
MaxElemLen == 3       \* lines of a function
MaxLineNo == 11       \* largest line number handed to to_consecutive_ranges
MaxCodecLen == 3      \* length of the list handed to to_consecutive_ranges
MaxContracts == 2     \* contracts listed in the input of one run
MaxSubs == 2          \* sub-chunks of one chunk, in the code file and in the label file

-----------------------------------------------------------------------------
(* Lexical helpers *)

\* tokenizer.tokenize(line), then len(): one token per lexeme
Tokenize(line) == Len(line)

RECURSIVE SumTokens(_)
\* len(tokenizer.tokenize("".join(lines)))
SumTokens(lines) ==
    IF lines = <<>> THEN 0 ELSE Tokenize(Head(lines)) + SumTokens(Tail(lines))

\* line.count(lx)
CountOf(line, lx) == Cardinality({k \in DOMAIN line : line[k] = lx})

\* lx in line
Contains(line, lx) == \E k \in DOMAIN line : line[k] = lx

\* line.strip().startswith(lx)
StartsWith(line, lx) == Len(line) > 0 /\ line[1] = lx

RECURSIVE LStripBrace(_)
\* stripped_line.lstrip("}").strip()
LStripBrace(line) ==
    IF Len(line) > 0 /\ line[1] = "}" THEN LStripBrace(Tail(line)) ELSE line

\* line.count("{") - line.count("}")
BraceDelta(line) == CountOf(line, "{") - CountOf(line, "}")

RECURSIVE Flatten(_)
Flatten(ss) == IF ss = <<>> THEN <<>> ELSE Head(ss) \o Flatten(Tail(ss))

Range(s) == {s[k] : k \in DOMAIN s}

\* range(a, b + 1) as a list
Interval(a, b) == [k \in 1..(IF b >= a THEN b - a + 1 ELSE 0) |-> a + k - 1]

\* seq[a-1:b]
Slice(seq, a, b) == [k \in 1..(IF b >= a THEN b - a + 1 ELSE 0) |-> seq[a + k - 1]]

-----------------------------------------------------------------------------
(* mini_split *)

\* One sub-chunk dict.  blocks is a history field (not in the source): how many
\* logical blocks were merged into this sub-chunk (1 = emitted as a block).
SubChunk(lines, lines_idx, token_count, parent, blocks) ==
    [lines |-> lines, lines_idx |-> lines_idx, token_count |-> token_count,
     parent_chunk_id |-> parent, blocks |-> blocks]

MSInit ==
    [sub_chunks |-> <<>>, current_chunk |-> <<>>, current_chunk_lines_idx |-> <<>>,
     current_tokens |-> 0, current_blocks |-> 0,
     block |-> <<>>, block_lines_idx |-> <<>>, block_tokens |-> 0,
     balance |-> 0, inside_control_block |-> FALSE, modifier_mode |-> FALSE,
     function_started |-> FALSE]

\* block.append(line); block_lines_idx.append(base_start_line + i); block_tokens += line_tokens
AppendToBlock(s, line, idx) ==
    [s EXCEPT !.block = Append(@, line),
              !.block_lines_idx = Append(@, idx),
              !.block_tokens = @ + Tokenize(line)]

ClearBlock(s) ==
    [s EXCEPT !.block = <<>>, !.block_lines_idx = <<>>, !.block_tokens = 0]

\* sub_chunks.append({... current_chunk ...})
EmitCurrent(s, cid) ==
    [s EXCEPT !.sub_chunks = Append(@, SubChunk(s.current_chunk,
                  s.current_chunk_lines_idx, s.current_tokens, cid, s.current_blocks))]

\* EmitBlock that tags the sub-chunk with the id of the chunk before the placeholder
EmitBlockStaleParent(s, cid) ==
    [s EXCEPT !.sub_chunks = Append(@, SubChunk(s.block, s.block_lines_idx,
                  s.block_tokens, cid - 1, 1))]

\* sub_chunks.append({... block ...})
EmitBlock(s, cid) ==
    [s EXCEPT !.sub_chunks = Append(@, SubChunk(s.block, s.block_lines_idx,
                  s.block_tokens, cid, 1))]

ResetCurrent(s) ==
    [s EXCEPT !.current_chunk = <<>>, !.current_chunk_lines_idx = <<>>,
              !.current_tokens = 0, !.current_blocks = 0]

\* current_chunk.extend(block) ...
MergeBlock(s) ==
    [s EXCEPT !.current_chunk = @ \o s.block,
              !.current_chunk_lines_idx = @ \o s.block_lines_idx,
              !.current_tokens = @ + s.block_tokens,
              !.current_blocks = @ + 1]

\* current_chunk = block.copy() ...
BlockToCurrent(s) ==
    [s EXCEPT !.current_chunk = s.block,
              !.current_chunk_lines_idx = s.block_lines_idx,
              !.current_tokens = s.block_tokens,
              !.current_blocks = 1]

\* FitsCurrent with a strict comparison
FitsCurrentStrict(s, mt) == s.current_tokens + s.block_tokens < mt

\* The merge test of the block-closure decision
FitsCurrent(s, mt) == s.current_tokens + s.block_tokens <= mt

\* if balance == 0 and not inside_control_block: ... (the block-closure decision)
CloseBlock(s, mt, cid) ==
    ClearBlock(
        IF s.block_tokens > mt
        THEN EmitBlock(IF s.current_chunk # <<>>
                       THEN ResetCurrent(EmitCurrent(s, cid)) ELSE s, cid)
        ELSE IF FitsCurrent(s, mt)
             THEN MergeBlock(s)
             ELSE BlockToCurrent(IF s.current_chunk # <<>>
                                 THEN EmitCurrent(s, cid) ELSE s))

\* The update of the control-block cohesion flag (if / try, else if / else / catch)
ControlFlag(inside, line, balance) ==
    LET line_check == LStripBrace(line)
    IN IF StartsWith(line_check, "if") \/ StartsWith(line_check, "try") THEN TRUE
       ELSE IF inside /\ (StartsWith(line_check, "else")
                          \/ StartsWith(line_check, "catch")) THEN TRUE
       ELSE IF inside /\ balance = 0 THEN FALSE
       ELSE inside

\* A line of the body: the function's opening brace has been seen
BodyLine(s, line, idx, mt, cid) ==
    LET s1 == AppendToBlock(s, line, idx)
        bal == s.balance + BraceDelta(line)
        s2 == [s1 EXCEPT !.balance = bal,
                         !.inside_control_block = ControlFlag(@, line, bal)]
    IN IF s2.balance = 0 /\ ~s2.inside_control_block
       THEN CloseBlock(s2, mt, cid) ELSE s2

\* if not function_started: ... continue ; else the body logic
FunctionLine(s, line, idx, mt, cid) ==
    IF ~s.function_started
    THEN [AppendToBlock(s, line, idx) EXCEPT !.function_started = Contains(line, "{")]
    ELSE BodyLine(s, line, idx, mt, cid)

\* The close of a modifier block: its own sub-chunk, back to normal mode
CloseModifier(s, cid) ==
    [ClearBlock(EmitBlock(s, cid)) EXCEPT !.modifier_mode = FALSE]

\* if modifier_mode: ... (falls through to the function logic when neither
\* `continue` is taken)
ModifierLine(s, line, idx, mt, cid) ==
    LET s1 == [AppendToBlock(s, line, idx) EXCEPT !.balance = @ + BraceDelta(line)]
    IN IF s1.balance > 0 THEN s1
       ELSE IF s1.balance = 0 /\ ~Contains(line, "modifier")
            THEN CloseModifier(s1, cid)
            ELSE FunctionLine(s1, line, idx, mt, cid)

\* One iteration of `for i, line in enumerate(func_lines)`
MSLine(s, line, idx, mt, cid) ==
    LET s1 == IF StartsWith(line, "modifier")
              THEN [s EXCEPT !.modifier_mode = TRUE, !.balance = 0] ELSE s
    IN IF s1.modifier_mode
       THEN ModifierLine(s1, line, idx, mt, cid)
       ELSE FunctionLine(s1, line, idx, mt, cid)

\* After the loop: `if block: ...` then `if current_chunk: ...`
MSEnd(s, mt, cid) ==
    LET s1 == IF s.block # <<>>
              THEN IF s.current_chunk # <<>> /\ FitsCurrent(s, mt)
                   THEN MergeBlock(s)
                   ELSE EmitBlock(IF s.current_chunk # <<>>
                                  THEN EmitCurrent(s, cid) ELSE s, cid)
              ELSE s
    IN IF s1.current_chunk # <<>> THEN EmitCurrent(s1, cid) ELSE s1

RECURSIVE MSScan(_, _, _, _, _, _)
MSScan(s, lines, i, base, mt, cid) ==
    IF i >= Len(lines) THEN s
    ELSE MSScan(MSLine(s, lines[i + 1], base + i, mt, cid), lines, i + 1, base, mt, cid)

\* mini_split(func_lines, max_tokens, tokenizer, chunk_id, base_start_line)
mini_split(lines, mt, cid, base) ==
    MSEnd(MSScan(MSInit, lines, 0, base, mt, cid), mt, cid).sub_chunks

-----------------------------------------------------------------------------
(* Chunk builder: chunk_contract (testM10CL.py) and the script loop            *)
(* (chunkDivision.py).  A "s-e" range string is the pair of its two numbers.   *)

\* The locals of the loop, as one record
Cur ==
    [chunks |-> chunks, current_chunk |-> current_chunk,
     current_chunk_lines_idx |-> current_chunk_lines_idx,
     current_tokens |-> current_tokens, chunk_id |-> chunk_id,
     line_idx |-> line_idx, element_idx |-> element_idx,
     sub_chunks_final |-> sub_chunks_final, flushed_ref |-> flushed_ref]

Set(b) ==
    /\ chunks' = b.chunks
    /\ current_chunk' = b.current_chunk
    /\ current_chunk_lines_idx' = b.current_chunk_lines_idx
    /\ current_tokens' = b.current_tokens
    /\ chunk_id' = b.chunk_id
    /\ line_idx' = b.line_idx
    /\ element_idx' = b.element_idx
    /\ sub_chunks_final' = b.sub_chunks_final
    /\ flushed_ref' = b.flushed_ref

\* total_lines = len(sol_lines)
total_lines == Len(sol_lines)

\* contract_pattern = ^\s*(contract|library|interface)\s+\w+
contract_pattern(line) ==
    /\ Len(line) >= 2
    /\ line[1] \in {"contract", "library", "interface"}
    /\ line[2] \notin {"{", "}", ";"}

\* used_modifiers = [mod for el in elements for mod in el["modifiers"]]
used_modifiers ==
    Flatten([k \in DOMAIN element_ranges |-> element_ranges[k].modifiers])

\* int(mod["lines"].split("-")[0]) <= line_idx <= int(mod["lines"].split("-")[1])
InModifier(mod, li) == mod[1] <= li /\ li <= mod[2]

\* found_modifier that looks at the first used modifier only
found_modifier_first_only(li) ==
    IF used_modifiers # <<>> /\ InModifier(used_modifiers[1], li) THEN 1 ELSE 0

\* next((mod for mod in used_modifiers if ...), None): the index of the first hit, 0 for None
found_modifier(li) ==
    LET hits == {k \in DOMAIN used_modifiers : InModifier(used_modifiers[k], li)}
    IN IF hits = {} THEN 0 ELSE CHOOSE k \in hits : \A j \in hits : k <= j

\* A chunk dict with its own lines
NormalChunk(im, lines, lines_idx, token_count, cid) ==
    IF im = "script"
    THEN [lines |-> lines, lines_idx |-> lines_idx, token_count |-> token_count,
          sub_chunks |-> <<>>]
    ELSE [lines |-> lines, lines_idx |-> lines_idx, token_count |-> token_count,
          chunk_id |-> cid]

\* OversizedChunk whose token_count in testM10CL.py is that of the empty "lines"
OversizedChunkEmptyCount(im, lines, lines_idx, token_count, cid, subs) ==
    IF im = "script"
    THEN [lines |-> lines, lines_idx |-> lines_idx, token_count |-> token_count,
          sub_chunks |-> subs]
    ELSE [lines |-> <<>>, lines_idx |-> lines_idx, token_count |-> 0,
          chunk_id |-> cid]

\* The chunk dict of an oversized element
OversizedChunk(im, lines, lines_idx, token_count, cid, subs) ==
    IF im = "script"
    THEN [lines |-> lines, lines_idx |-> lines_idx, token_count |-> token_count,
          sub_chunks |-> subs]
    ELSE [lines |-> <<>>, lines_idx |-> lines_idx, token_count |-> token_count,
          chunk_id |-> cid]

\* Flush that appends the chunk and leaves the counter as it is
FlushKeepsCounter(im, b) ==
    [b EXCEPT !.chunks = Append(@, NormalChunk(im, b.current_chunk,
                                    b.current_chunk_lines_idx, b.current_tokens,
                                    b.chunk_id + 1)),
              !.flushed_ref = Len(b.chunks) + 1]

\* chunk_id += 1; chunks.append({... current_chunk ...}): the dict refers to the two
\* list objects of the accumulator, it does not copy them
Flush(im, b) ==
    [b EXCEPT !.chunk_id = @ + 1,
              !.chunks = Append(@, NormalChunk(im, b.current_chunk,
                                    b.current_chunk_lines_idx, b.current_tokens,
                                    b.chunk_id + 1)),
              !.flushed_ref = Len(b.chunks) + 1]

\* The accumulator's lists changed in place: what a dict of chunks that refers to them
\* shows afterwards
InPlace(b, lines, lines_idx) ==
    IF b.flushed_ref = 0 THEN b.chunks
    ELSE [b.chunks EXCEPT ![b.flushed_ref].lines = lines,
                          ![b.flushed_ref].lines_idx = lines_idx]

\* ResetAcc that empties the two lists in place (del current_chunk[:])
ResetAccInPlace(b) ==
    [b EXCEPT !.current_chunk = <<>>, !.current_chunk_lines_idx = <<>>,
              !.current_tokens = 0, !.chunks = InPlace(b, <<>>, <<>>)]

\* current_chunk = []; current_chunk_lines_idx = []; current_tokens = 0: the names are
\* bound to new lists
ResetAcc(b) ==
    [b EXCEPT !.current_chunk = <<>>, !.current_chunk_lines_idx = <<>>,
              !.current_tokens = 0, !.flushed_ref = 0]

\* HasClosingBrace that looks at the last line of the chunk only
LastLineHasClosingBrace(lines) == lines # <<>> /\ Contains(lines[Len(lines)], "}")

\* any("}" in l for l in current_chunk)
HasClosingBrace(lines) == \E k \in DOMAIN lines : Contains(lines[k], "}")

\* The top of an iteration: a new contract / library / interface closes the chunk
ContractFlush(im, b) ==
    IF /\ contract_pattern(sol_lines[b.line_idx])
       /\ b.current_chunk # <<>>
       /\ HasClosingBrace(b.current_chunk)
    THEN ResetAcc(Flush(im, b)) ELSE b

\* PrependModifier without the ignore_modifier_check override
PrependModifierNoOverride(ignore, mod, cur_idx) ==
    ~(\E idx \in mod[1]..mod[2] : idx \in Range(cur_idx))

\* if ignore_modifier_check or not any(idx in current_chunk_lines_idx for idx in mod_range)
PrependModifier(ignore, mod, cur_idx) ==
    ignore \/ ~(\E idx \in mod[1]..mod[2] : idx \in Range(cur_idx))

RECURSIVE ModifierIdx(_, _, _)
\* for mod in el["modifiers"]: ... func_lines_idx.extend(mod_range)
ModifierIdx(mods, ignore, cur_idx) ==
    IF mods = <<>> THEN <<>>
    ELSE (IF PrependModifier(ignore, Head(mods), cur_idx)
          THEN Interval(Head(mods)[1], Head(mods)[2]) ELSE <<>>)
         \o ModifierIdx(Tail(mods), ignore, cur_idx)

\* The text of the listed lines: sol_lines[mod_start-1:mod_end] and sol_lines[start-1:end]
LinesAt(idx) == [k \in DOMAIN idx |-> sol_lines[idx[k]]]

\* func_lines_idx after the modifier loop and the extend with range(start, end+1)
ElementIdx(b, el) ==
    LET ignore_modifier_check ==
            b.current_tokens + SumTokens(Slice(sol_lines, el.start, el.end)) > max_tokens
    IN ModifierIdx(el.modifiers, ignore_modifier_check, b.current_chunk_lines_idx)
       \o Interval(el.start, el.end)

\* CaseA that leaves the accumulator as it is after the placeholder
CaseAKeepsAccumulator(im, b, f_lines, f_idx, f_tokens) ==
    LET b1 == IF b.current_chunk # <<>> THEN Flush(im, b) ELSE b
        cid == b1.chunk_id + 1
        subs == mini_split(f_lines, max_tokens, cid, f_idx[1])
    IN [b1 EXCEPT
           !.chunk_id = cid,
           !.chunks = Append(@, OversizedChunk(im, f_lines, f_idx, f_tokens, cid, subs)),
           !.sub_chunks_final = IF im = "script" THEN @ ELSE @ \o subs]

\* Case A: the element with its modifiers exceeds max_tokens
CaseA(im, b, f_lines, f_idx, f_tokens) ==
    LET b1 == IF b.current_chunk # <<>> THEN Flush(im, b) ELSE b
        cid == b1.chunk_id + 1
        subs == mini_split(f_lines, max_tokens, cid, f_idx[1])
    IN ResetAcc([b1 EXCEPT
           !.chunk_id = cid,
           !.chunks = Append(@, OversizedChunk(im, f_lines, f_idx, f_tokens, cid, subs)),
           !.sub_chunks_final = IF im = "script" THEN @ ELSE @ \o subs])

\* CaseB that seeds the new chunk without flushing the current one
CaseBNoFlush(im, b, f_lines, f_idx, f_tokens) ==
    [b EXCEPT !.current_chunk = f_lines,
              !.current_chunk_lines_idx = f_idx,
              !.current_tokens = f_tokens,
              !.flushed_ref = 0]

\* Case B: the element fits alone but not with the current chunk
CaseB(im, b, f_lines, f_idx, f_tokens) ==
    [Flush(im, b) EXCEPT !.current_chunk = f_lines,
                         !.current_chunk_lines_idx = f_idx,
                         !.current_tokens = f_tokens,
                         !.flushed_ref = 0]

\* CaseC with the element put in front of the chunk's earlier lines
CaseCInFront(b, f_lines, f_idx, f_tokens) ==
    [b EXCEPT !.current_chunk = f_lines \o @,
              !.current_chunk_lines_idx = f_idx \o @,
              !.current_tokens = @ + f_tokens]

\* Case C: the element goes into the current chunk (extend, in place)
CaseC(b, f_lines, f_idx, f_tokens) ==
    [b EXCEPT !.current_chunk = @ \o f_lines,
              !.current_chunk_lines_idx = @ \o f_idx,
              !.current_tokens = @ + f_tokens,
              !.chunks = InPlace(b, b.current_chunk \o f_lines,
                                 b.current_chunk_lines_idx \o f_idx)]

ElementCase(b, f_tokens) ==
    IF f_tokens > max_tokens THEN "A"
    ELSE IF b.current_tokens + f_tokens > max_tokens /\ b.current_chunk # <<>> THEN "B"
    ELSE "C"

\* ProcessElement that leaves the cursor on the element's last line
ProcessElementCursorOnEnd(im, b) ==
    LET el == element_ranges[b.element_idx + 1]
        f_idx == ElementIdx(b, el)
        f_lines == LinesAt(f_idx)
        f_tokens == SumTokens(f_lines)
        kind == ElementCase(b, f_tokens)
        b1 == IF kind = "A" THEN CaseA(im, b, f_lines, f_idx, f_tokens)
              ELSE IF kind = "B" THEN CaseB(im, b, f_lines, f_idx, f_tokens)
              ELSE CaseC(b, f_lines, f_idx, f_tokens)
    IN [b1 EXCEPT !.line_idx = el.end, !.element_idx = @ + 1]

\* The whole element branch of the loop
ProcessElement(im, b) ==
    LET el == element_ranges[b.element_idx + 1]
        f_idx == ElementIdx(b, el)
        f_lines == LinesAt(f_idx)
        f_tokens == SumTokens(f_lines)
        kind == ElementCase(b, f_tokens)
        b1 == IF kind = "A" THEN CaseA(im, b, f_lines, f_idx, f_tokens)
              ELSE IF kind = "B" THEN CaseB(im, b, f_lines, f_idx, f_tokens)
              ELSE CaseC(b, f_lines, f_idx, f_tokens)
    IN [b1 EXCEPT !.line_idx = el.end + 1, !.element_idx = @ + 1]

\* PlainLine that, after a flush, forgets to seed the new chunk with the line
PlainLineDropsLine(im, b) ==
    LET line == sol_lines[b.line_idx]
        line_tokens == Tokenize(line)
        b1 == IF b.current_tokens + line_tokens > max_tokens /\ b.current_chunk # <<>>
              THEN ResetAcc(Flush(im, b))
              ELSE [b EXCEPT !.current_chunk = Append(@, line),
                             !.current_chunk_lines_idx = Append(@, b.line_idx),
                             !.current_tokens = @ + line_tokens]
    IN [b1 EXCEPT !.line_idx = @ + 1]

\* The plain-line branch of the loop
PlainLine(im, b) ==
    LET line == sol_lines[b.line_idx]
        line_tokens == Tokenize(line)
        b1 == IF b.current_tokens + line_tokens > max_tokens /\ b.current_chunk # <<>>
              THEN [Flush(im, b) EXCEPT !.current_chunk = <<line>>,
                                        !.current_chunk_lines_idx = <<b.line_idx>>,
                                        !.current_tokens = line_tokens,
                                        !.flushed_ref = 0]
              ELSE [b EXCEPT !.current_chunk = Append(@, line),
                             !.current_chunk_lines_idx = Append(@, b.line_idx),
                             !.current_tokens = @ + line_tokens,
                             !.chunks = InPlace(b, Append(b.current_chunk, line),
                                                Append(b.current_chunk_lines_idx, b.line_idx))]
    IN [b1 EXCEPT !.line_idx = @ + 1]

\* AtElement that also takes an element whose start line the cursor has passed
AtElementOrPast(b) ==
    /\ b.element_idx < Len(element_ranges)
    /\ b.line_idx >= element_ranges[b.element_idx + 1].start

\* if element_idx < len(element_ranges) and line_idx == element_ranges[element_idx]["start"]
AtElement(b) ==
    /\ b.element_idx < Len(element_ranges)
    /\ b.line_idx = element_ranges[b.element_idx + 1].start

\* The three-way branch of one loop iteration, after the contract check
Branch(b) ==
    IF found_modifier(b.line_idx) # 0 THEN "modifier"
    ELSE IF AtElement(b) THEN "element"
    ELSE "plain"

Looping == pc = "loop" /\ line_idx <= total_lines

Frame ==
    /\ UNCHANGED <<impl, sol_lines, element_ranges, max_tokens, pc>>
    /\ UNCHANGED <<miniVars, codecVars, runVars, fillVars>>

\* found_modifier: line_idx jumps past the modifier declaration
SkipModifier ==
    /\ Looping
    /\ LET b == ContractFlush(impl, Cur)
       IN /\ Branch(b) = "modifier"
          /\ Set([b EXCEPT !.line_idx = used_modifiers[found_modifier(b.line_idx)][2] + 1])
    /\ Frame

\* An element larger than max_tokens: placeholder chunk and mini_split
ElementOversized ==
    /\ Looping
    /\ LET b == ContractFlush(impl, Cur)
       IN /\ Branch(b) = "element"
          /\ ElementCase(b, SumTokens(LinesAt(ElementIdx(b, element_ranges[b.element_idx + 1])))) = "A"
          /\ Set(ProcessElement(impl, b))
    /\ Frame

\* An element that starts a new chunk
ElementNewChunk ==
    /\ Looping
    /\ LET b == ContractFlush(impl, Cur)
       IN /\ Branch(b) = "element"
          /\ ElementCase(b, SumTokens(LinesAt(ElementIdx(b, element_ranges[b.element_idx + 1])))) = "B"
          /\ Set(ProcessElement(impl, b))
    /\ Frame

\* An element appended to the current chunk
ElementAppend ==
    /\ Looping
    /\ LET b == ContractFlush(impl, Cur)
       IN /\ Branch(b) = "element"
          /\ ElementCase(b, SumTokens(LinesAt(ElementIdx(b, element_ranges[b.element_idx + 1])))) = "C"
          /\ Set(ProcessElement(impl, b))
    /\ Frame

\* A line outside every element and modifier
PlainStep ==
    /\ Looping
    /\ LET b == ContractFlush(impl, Cur)
       IN /\ Branch(b) = "plain"
          /\ Set(PlainLine(impl, b))
    /\ Frame

\* After the loop: the last chunk
FinalFlush ==
    /\ pc = "loop"
    /\ line_idx > total_lines
    /\ Set(IF current_chunk # <<>> THEN Flush(impl, Cur) ELSE Cur)
    /\ pc' = "done"
    /\ UNCHANGED <<impl, sol_lines, element_ranges, max_tokens>>
    /\ UNCHANGED <<miniVars, codecVars, runVars, fillVars>>

-----------------------------------------------------------------------------
(* Inputs of the chunk builder: a file layout (modifier declarations,          *)
(* elements, plain lines) and the text of its lines                            *)

\* Line ranges "s-e" of at most n lines inside the file
Ranges(n) == {<<s, e>> \in (1..FileLen) \X (1..FileLen) : s <= e /\ e - s < n}

Disjoint(r, q) == r[2] < q[1] \/ q[2] < r[1]

\* The modifier declarations some element refers to: at most two, apart from each other
ModifierSets ==
    {S \in SUBSET Ranges(MaxModLen) :
        Cardinality(S) <= 2 /\ \A r \in S, q \in S : r = q \/ Disjoint(r, q)}

\* A function's modifier list: each modifier at most once (Solidity rejects a repeat)
ModifierLists(S) ==
    {<<>>} \cup {<<r>> : r \in S} \cup {p \in S \X S : p[1] # p[2]}

Element(r, mods) == [start |-> r[1], end |-> r[2], modifiers |-> mods]

\* What extract_elements returns, after element_ranges.sort: at most two elements in
\* start order, pairwise apart (seen_ranges, source mapping) and apart from the
\* modifier declarations; every declaration of S is referred to
ElementLists(S) ==
    LET free == {r \in Ranges(MaxElemLen) : \A q \in S : Disjoint(r, q)}
        one == {<<Element(r, ml)>> : r \in free, ml \in ModifierLists(S)}
        two == {<<Element(p[1], ml), Element(p[2], nl)>> :
                   p \in {x \in free \X free : x[1][2] < x[2][1]},
                   ml \in ModifierLists(S), nl \in ModifierLists(S)}
    IN {els \in {<<>>} \cup one \cup two :
           \A r \in S : \E k \in DOMAIN els : r \in Range(els[k].modifiers)}

\* Text of a modifier declaration, line k of n
ModifierText(k, n) ==
    IF n = 1 THEN <<"modifier", "m", "{", "}">>
    ELSE IF k = 1 THEN <<"modifier", "m", "{">>
    ELSE IF k = n THEN <<"}">>
    ELSE <<"_", ";">>

\* Text of a function, line k of n
FunctionText(k, n) ==
    IF n = 1 THEN <<"function", "f", "{", "}">>
    ELSE IF k = 1 THEN <<"function", "f", "{">>
    ELSE IF k = n THEN <<"}">>
    ELSE <<"x", ";">>

\* Lines outside every function and modifier
PlainAlphabet == { <<"x", ";">>, <<"}">>, <<"contract", "C", "{">> }

PlainPositions(S, els) ==
    {i \in 1..FileLen :
        /\ \A r \in S : ~InModifier(r, i)
        /\ \A k \in DOMAIN els : ~(els[k].start <= i /\ i <= els[k].end)}

\* The file: declarations and functions where the layout puts them, txt elsewhere
FileText(S, els, txt) ==
    [i \in 1..FileLen |->
        IF \E r \in S : InModifier(r, i)
        THEN LET r == CHOOSE q \in S : InModifier(q, i)
             IN ModifierText(i - r[1] + 1, r[2] - r[1] + 1)
        ELSE IF \E k \in DOMAIN els : els[k].start <= i /\ i <= els[k].end
        THEN LET e == els[CHOOSE k \in DOMAIN els : els[k].start <= i /\ i <= els[k].end]
             IN FunctionText(i - e.start + 1, e.end - e.start + 1)
        ELSE txt[i]]

BuilderBudgets == {2, 8, 12}

MiniIdle ==
    /\ func_lines = <<>>
    /\ ms = MSInit
    /\ ms_call = [chunk_id |-> 0, base_start_line |-> 1]
    /\ ms_i = 0
    /\ ms_pc = "idle"

CodecIdle ==
    codec = [lines |-> <<>>, sorted_lines |-> <<>>, ranges |-> <<>>,
             start |-> 0, prev |-> 0, i |-> 0, pc |-> "idle"]

FillIdle ==
    fill = [code_sub_chunks |-> <<>>, sub_chunks_label |-> <<>>, used_idx |-> {},
            i |-> 0, out_f |-> <<>>, pc |-> "idle"]

RunIdle ==
    /\ inputs = [present |-> TRUE, records |-> <<>>]
    /\ contract_idx = 0
    /\ f_out = <<>>
    /\ run_pc = "idle"

Init ==
    /\ impl \in {"script", "audit"}
    /\ max_tokens \in BuilderBudgets
    /\ \E S \in ModifierSets : \E els \in ElementLists(S) :
         \E txt \in [PlainPositions(S, els) -> PlainAlphabet] :
            /\ element_ranges = els
            /\ sol_lines = FileText(S, els, txt)
    /\ chunks = <<>>
    /\ current_chunk = <<>>
    /\ current_chunk_lines_idx = <<>>
    /\ current_tokens = 0
    /\ chunk_id = 0
    /\ line_idx = 1
    /\ element_idx = 0
    /\ sub_chunks_final = <<>>
    /\ flushed_ref = 0
    /\ pc = "loop"
    /\ MiniIdle
    /\ CodecIdle
    /\ FillIdle
    /\ RunIdle

Next ==
    \/ SkipModifier
    \/ ElementOversized
    \/ ElementNewChunk
    \/ ElementAppend
    \/ PlainStep
    \/ FinalFlush

Spec == Init /\ [][Next]_vars

-----------------------------------------------------------------------------
(* The mini_split scan, one line per step *)

\* Lines of a function body
BodyAlphabet ==
    { <<"x", ";">>, <<"x", "=", "y", ";">>, <<"if", "c", "{">>, <<"}">>,
      <<"}", "else", "{">>, <<"else", "{">> }

RECURSIVE SeqsUpTo(_, _)
SeqsUpTo(S, n) ==
    IF n = 0 THEN {<<>>}
    ELSE LET shorter == SeqsUpTo(S, n - 1)
         IN shorter \cup {Append(q, x) : q \in {r \in shorter : Len(r) = n - 1}, x \in S}

\* Layouts of a prepended modifier declaration
ModBraceSameLine == << <<"modifier", "m", "{">>, <<"_", ";">>, <<"}">> >>
ModBraceNextLine == << <<"modifier", "m">>, <<"{">>, <<"_", ";">>, <<"}">> >>
ModOneLine == << <<"modifier", "m", "{", "_", ";", "}">> >>

ModPrefixes == {<<>>, ModBraceSameLine, ModBraceNextLine, ModOneLine}

\* Layouts of the function header up to its opening brace
Headers == { << <<"function", "f", "{">> >>, << <<"function", "f">>, <<"{">> >> }

MiniInputs ==
    {m \o h \o b : m \in ModPrefixes, h \in Headers, b \in SeqsUpTo(BodyAlphabet, MaxBody)}

MiniBudgets == {3, MaxTokens}

MiniCalls == {[chunk_id |-> 1, base_start_line |-> 1],
              [chunk_id |-> 2, base_start_line |-> 4]}

BuilderIdle ==
    /\ impl = "audit"
    /\ sol_lines = <<>>
    /\ element_ranges = <<>>
    /\ chunks = <<>>
    /\ current_chunk = <<>>
    /\ current_chunk_lines_idx = <<>>
    /\ current_tokens = 0
    /\ chunk_id = 0
    /\ line_idx = 1
    /\ element_idx = 0
    /\ sub_chunks_final = <<>>
    /\ flushed_ref = 0
    /\ pc = "idle"

InitMini ==
    /\ func_lines \in MiniInputs
    /\ max_tokens \in MiniBudgets
    /\ ms_call \in MiniCalls
    /\ ms = MSInit
    /\ ms_i = 0
    /\ ms_pc = "scan"
    /\ BuilderIdle
    /\ CodecIdle
    /\ FillIdle
    /\ RunIdle

\* for i, line in enumerate(func_lines): one iteration
MiniSplitLine ==
    /\ ms_pc = "scan"
    /\ ms_i < Len(func_lines)
    /\ ms' = MSLine(ms, func_lines[ms_i + 1], ms_call.base_start_line + ms_i,
                    max_tokens, ms_call.chunk_id)
    /\ ms_i' = ms_i + 1
    /\ UNCHANGED <<func_lines, ms_call, ms_pc, max_tokens>>
    /\ UNCHANGED <<builderVars, codecVars, runVars, fillVars>>

\* the code after the loop, up to `return sub_chunks`
MiniSplitEnd ==
    /\ ms_pc = "scan"
    /\ ms_i = Len(func_lines)
    /\ ms' = MSEnd(ms, max_tokens, ms_call.chunk_id)
    /\ ms_pc' = "done"
    /\ UNCHANGED <<func_lines, ms_call, ms_i, max_tokens>>
    /\ UNCHANGED <<builderVars, codecVars, runVars, fillVars>>

NextMini == MiniSplitLine \/ MiniSplitEnd

SpecMini == InitMini /\ [][NextMini]_vars

-----------------------------------------------------------------------------
(* Properties of mini_split, checked under SpecMini *)

MiniDone == ms_pc = "done"

\* The lines of the returned sub-chunks, concatenated in output order
MiniOutputLines == Flatten([k \in DOMAIN ms.sub_chunks |-> ms.sub_chunks[k].lines])

\* C1: when mini_split returns, the concatenation of the sub-chunks' lines in output
\* order is exactly the input: every line once, in source order.
C1_Reassembly == MiniDone => MiniOutputLines = func_lines

\* A sub-chunk that is one block: emitted from `block`, and not holding both a
\* modifier declaration and the function header
OneBlock(sc) ==
    /\ sc.blocks = 1
    /\ ~(/\ \E k \in DOMAIN sc.lines : StartsWith(sc.lines[k], "modifier")
         /\ \E k \in DOMAIN sc.lines : StartsWith(sc.lines[k], "function"))

\* C3: every sub-chunk returned by mini_split is within max_tokens or is exactly one
\* indivisible block (one modifier, one closed block, the trailing block); a sub-chunk
\* merged from several blocks never exceeds max_tokens.
C3_BudgetOrOneBlock ==
    \A k \in DOMAIN ms.sub_chunks :
        ms.sub_chunks[k].token_count <= max_tokens \/ OneBlock(ms.sub_chunks[k])

\* Position p opens an if / try block and position j is its else / catch continuation:
\* `if {`, statements, then `} else {` on one line or `}` followed by `else {`
IfElseChain(p, j) ==
    LET close == IF StartsWith(func_lines[j], "}") THEN j ELSE j - 1
    IN /\ p < close /\ close <= j
       /\ StartsWith(func_lines[p], "if") /\ BraceDelta(func_lines[p]) = 1
       /\ StartsWith(func_lines[close], "}")
       /\ StartsWith(LStripBrace(func_lines[j]), "else")
       /\ close < j => func_lines[close] = <<"}">>
       /\ \A q \in (p + 1)..(close - 1) :
              ~Contains(func_lines[q], "{") /\ ~Contains(func_lines[q], "}")

\* Input positions p and j lie in the same returned sub-chunks
SameSubChunk(p, j) ==
    \A k \in DOMAIN ms.sub_chunks :
        (ms_call.base_start_line + p - 1 \in Range(ms.sub_chunks[k].lines_idx))
        <=> (ms_call.base_start_line + j - 1 \in Range(ms.sub_chunks[k].lines_idx))

\* C8: an if / try block and its immediately following else / catch continuation are
\* in the same sub-chunk, for both layouts of the continuation keyword.
C8_ChainCohesion ==
    MiniDone => \A p \in DOMAIN func_lines, j \in DOMAIN func_lines :
                    IfElseChain(p, j) => SameSubChunk(p, j)

\* The sub-chunk dict made of the given lines, whatever its history field
IsSubChunkOf(sc, lines, lines_idx, tokens) ==
    /\ sc.lines = lines
    /\ sc.lines_idx = lines_idx
    /\ sc.token_count = tokens
    /\ sc.parent_chunk_id = ms_call.chunk_id

\* sub_chunks after the step is sub_chunks before it plus the accumulator (when it
\* is not empty and withAcc) plus the block b (when withBlock)
Emitted(withAcc, withBlock, b, b_idx, b_tokens) ==
    LET n == Len(ms.sub_chunks)
        a == IF withAcc /\ ms.current_chunk # <<>> THEN 1 ELSE 0
        k == IF withBlock THEN 1 ELSE 0
    IN /\ Len(ms'.sub_chunks) = n + a + k
       /\ SubSeq(ms'.sub_chunks, 1, n) = ms.sub_chunks
       /\ a = 1 => IsSubChunkOf(ms'.sub_chunks[n + 1], ms.current_chunk,
                                ms.current_chunk_lines_idx, ms.current_tokens)
       /\ k = 1 => IsSubChunkOf(ms'.sub_chunks[n + a + 1], b, b_idx, b_tokens)

\* The accumulator after the step
AccumulatorIs(lines, lines_idx, tokens) ==
    /\ ms'.current_chunk = lines
    /\ ms'.current_chunk_lines_idx = lines_idx
    /\ ms'.current_tokens = tokens

\* C23: when the scan, in normal mode, reads a line of the function body that leaves
\* balance = 0 with the cohesion flag clear, the block closed by that line (i) is
\* emitted as a sub-chunk of its own, after the accumulator if there is one, and the
\* accumulator is left empty, if block_tokens > max_tokens; (ii) else is merged into the
\* accumulator, with nothing emitted, if current_tokens + block_tokens <= max_tokens;
\* (iii) else becomes the new accumulator, after the old one (if any) is emitted.  The
\* block is empty afterwards and the sub-chunks emitted before stay as they are.
C23_BlockClosure ==
    [][LET line == func_lines[ms_i + 1]
           b == Append(ms.block, line)
           b_idx == Append(ms.block_lines_idx, ms_call.base_start_line + ms_i)
           b_tokens == ms.block_tokens + Len(line)
       IN (/\ ms_pc = "scan" /\ ms_i < Len(func_lines)
           /\ ~ms.modifier_mode /\ line[1] # "modifier"
           /\ ms.function_started
           /\ ms.balance + CountOf(line, "{") - CountOf(line, "}") = 0
           /\ ~ms'.inside_control_block)
          => /\ IF b_tokens > max_tokens
                THEN /\ Emitted(TRUE, TRUE, b, b_idx, b_tokens)
                     /\ AccumulatorIs(<<>>, <<>>, 0)
                ELSE IF ms.current_tokens + b_tokens <= max_tokens
                THEN /\ Emitted(FALSE, FALSE, b, b_idx, b_tokens)
                     /\ AccumulatorIs(ms.current_chunk \o b, ms.current_chunk_lines_idx \o b_idx,
                                      ms.current_tokens + b_tokens)
                ELSE /\ Emitted(TRUE, FALSE, b, b_idx, b_tokens)
                     /\ AccumulatorIs(b, b_idx, b_tokens)
             /\ ms'.block = <<>>
             /\ ms'.block_lines_idx = <<>>
             /\ ms'.block_tokens = 0]_vars

\* C23 witness: a scan in normal mode that has emitted an over-budget block after the
\* accumulator, so that block, accumulator and two sub-chunks are as case (i) leaves them
C23_Witness ==
    /\ ms_pc = "scan"
    /\ ~ms.modifier_mode
    /\ ms.function_started
    /\ ms.block = <<>>
    /\ ms.current_chunk = <<>>
    /\ Len(ms.sub_chunks) >= 2
    /\ ms.sub_chunks[Len(ms.sub_chunks)].token_count > max_tokens
    /\ ms.sub_chunks[Len(ms.sub_chunks) - 1].token_count <= max_tokens
    /\ \A k \in DOMAIN ms.sub_chunks : ~StartsWith(ms.sub_chunks[k].lines[1], "modifier")

\* Brace balance of the first j lines of func_lines
RECURSIVE BalanceUpTo(_)
BalanceUpTo(j) == IF j = 0 THEN 0 ELSE BalanceUpTo(j - 1) + BraceDelta(func_lines[j])

\* The last line of the modifier declaration that starts func_lines: the first line at
\* which the braces opened so far are all closed
ModifierEnd ==
    CHOOSE j \in DOMAIN func_lines :
        /\ BalanceUpTo(j) = 0 /\ \E k \in 1..j : Contains(func_lines[k], "{")
        /\ \A n \in 1..(j - 1) :
              ~(BalanceUpTo(n) = 0 /\ \E k \in 1..n : Contains(func_lines[k], "{"))

\* C24: when func_lines starts with a modifier declaration, the scan is in modifier
\* sub-mode, with nothing emitted, until the last line of the declaration has been
\* read; right after that line the declaration, each of its lines once, is the one
\* sub-chunk emitted, the block is empty and the scan is back in normal mode; for the
\* opening brace on the declaration line, on the next line, and a one-line modifier.
C24_ModifierSubMode ==
    (ms_pc = "scan" /\ StartsWith(func_lines[1], "modifier"))
    => /\ (1 <= ms_i /\ ms_i < ModifierEnd) => (ms.modifier_mode /\ ms.sub_chunks = <<>>)
       /\ ms_i = ModifierEnd
          => /\ Len(ms.sub_chunks) = 1
             /\ ms.sub_chunks[1].lines = SubSeq(func_lines, 1, ModifierEnd)
             /\ ms.sub_chunks[1].lines_idx
                   = Interval(ms_call.base_start_line, ms_call.base_start_line + ModifierEnd - 1)
             /\ ms.block = <<>>
             /\ ~ms.modifier_mode

\* C25: at the end of the input, with a non-empty trailing block, the step after the
\* loop emits the accumulator and the block as one sub-chunk when the accumulator is
\* not empty and current_tokens + block_tokens <= max_tokens; otherwise it emits the
\* accumulator (when not empty) and then the block, each as one sub-chunk and each once.
C25_EndOfInput ==
    [][(ms_pc = "scan" /\ ms_i = Len(func_lines) /\ ms.block # <<>>)
       => IF ms.current_chunk # <<>> /\ ms.current_tokens + ms.block_tokens <= max_tokens
          THEN /\ Len(ms'.sub_chunks) = Len(ms.sub_chunks) + 1
               /\ SubSeq(ms'.sub_chunks, 1, Len(ms.sub_chunks)) = ms.sub_chunks
               /\ IsSubChunkOf(ms'.sub_chunks[Len(ms'.sub_chunks)],
                               ms.current_chunk \o ms.block,
                               ms.current_chunk_lines_idx \o ms.block_lines_idx,
                               ms.current_tokens + ms.block_tokens)
          ELSE Emitted(TRUE, TRUE, ms.block, ms.block_lines_idx, ms.block_tokens)]_vars

-----------------------------------------------------------------------------
(* Properties of the chunk builder, checked under Spec *)

Done == pc = "done"

\* The sub-chunks that belong to top-level chunk k
SubChunksOf(k) ==
    IF impl = "script" THEN chunks[k].sub_chunks
    ELSE SelectSeq(sub_chunks_final, LAMBDA sc : sc.parent_chunk_id = chunks[k].chunk_id)

\* Every sub-chunk the run produced
AllSubChunks ==
    IF impl = "script" THEN Flatten([k \in DOMAIN chunks |-> chunks[k].sub_chunks])
    ELSE sub_chunks_final

IsPlaceholder(k) == SubChunksOf(k) # <<>>

\* The lines inside a modifier declaration some element refers to
ModifierLineSet ==
    {i \in 1..total_lines : \E k \in DOMAIN used_modifiers : InModifier(used_modifiers[k], i)}

\* Number of occurrences of line i over the lines_idx of all top-level chunks
RECURSIVE Occurrences(_, _)
Occurrences(cs, i) ==
    IF cs = <<>> THEN 0 ELSE CountOf(Head(cs).lines_idx, i) + Occurrences(Tail(cs), i)

\* C2: every top-level chunk that is not an oversized-element placeholder has
\* token_count <= max_tokens.
C2_ChunkBudget ==
    \A k \in DOMAIN chunks : IsPlaceholder(k) \/ chunks[k].token_count <= max_tokens

\* C4: for sorted, non-overlapping elements apart from the modifier declarations, the
\* chunks' lines_idx cover 1..N and every line outside the referenced modifier
\* declarations occurs exactly once.
C4_Coverage ==
    Done => /\ UNION {Range(chunks[k].lines_idx) : k \in DOMAIN chunks} = 1..total_lines
            /\ \A i \in (1..total_lines) \ ModifierLineSet : Occurrences(chunks, i) = 1

\* C4 witness: a finished run over a file with a referenced modifier declaration, an
\* element and plain lines, in more than one chunk
C4_Witness ==
    /\ Done /\ Len(chunks) >= 2 /\ ModifierLineSet # {} /\ element_idx >= 1
    /\ (1..total_lines) \ ModifierLineSet # {}

\* C5: in every sub-chunk of a mini-split element, lines and lines_idx have the same
\* length and lines_idx[k] is the file line number of lines[k].
C5_SubChunkProvenance ==
    \A n \in DOMAIN AllSubChunks :
        LET sc == AllSubChunks[n]
        IN /\ Len(sc.lines) = Len(sc.lines_idx)
           /\ \A k \in DOMAIN sc.lines :
                  /\ sc.lines_idx[k] \in 1..total_lines
                  /\ sol_lines[sc.lines_idx[k]] = sc.lines[k]

StrictlyIncreasing(s) == \A a \in DOMAIN s, b \in DOMAIN s : a < b => s[a] < s[b]

\* C6 (as claimed): in every normal chunk lines_idx is strictly increasing.
C6_Increasing ==
    \A k \in DOMAIN chunks : IsPlaceholder(k) \/ StrictlyIncreasing(chunks[k].lines_idx)

\* C6 (amended): in every normal chunk the entries of lines_idx outside the referenced
\* modifier declarations (plain lines and element bodies) are strictly increasing;
\* prepended modifier declarations keep their own order but may lie before or after.
C6_IncreasingOutsideModifiers ==
    \A k \in DOMAIN chunks :
        IsPlaceholder(k) \/
        StrictlyIncreasing(SelectSeq(chunks[k].lines_idx, LAMBDA i : i \notin ModifierLineSet))

\* C6 witness: a normal chunk where plain lines precede an element with a prepended
\* modifier, so that lines_idx as a whole is not increasing
C6_Witness ==
    \E k \in DOMAIN chunks :
        /\ ~IsPlaceholder(k)
        /\ ~StrictlyIncreasing(chunks[k].lines_idx)
        /\ Len(SelectSeq(chunks[k].lines_idx, LAMBDA i : i \notin ModifierLineSet)) >= 2

\* C7: in both implementations a chunk with sub-chunks has an empty lines payload.
C7_ExclusivePayload ==
    \A k \in DOMAIN chunks : SubChunksOf(k) # <<>> => chunks[k].lines = <<>>

\* Top-level chunk k holds the body of element e
HoldsElement(k, e) == e.start \in Range(chunks[k].lines_idx)

SharedModifiers(e, f) == Range(e.modifiers) \cap Range(f.modifiers)

\* C9: if two elements with a common modifier are in one chunk, the modifier's lines
\* occur at most once in it; if they are in different chunks, exactly once in each.
C9_ModifierOncePerChunk ==
    \A a \in DOMAIN element_ranges, b \in DOMAIN element_ranges :
      \A k \in DOMAIN chunks, n \in DOMAIN chunks :
        (a # b /\ HoldsElement(k, element_ranges[a]) /\ HoldsElement(n, element_ranges[b]))
        => \A mod \in SharedModifiers(element_ranges[a], element_ranges[b]) :
             \A i \in mod[1]..mod[2] :
                IF k = n THEN CountOf(chunks[k].lines_idx, i) <= 1
                ELSE CountOf(chunks[k].lines_idx, i) = 1
                     /\ CountOf(chunks[n].lines_idx, i) = 1

\* C10: the chunk (or placeholder) that holds an element's body holds the declaration
\* lines of every modifier of that element.
C10_ModifiersTravel ==
    \A a \in DOMAIN element_ranges, k \in DOMAIN chunks :
        HoldsElement(k, element_ranges[a])
        => \A mod \in Range(element_ranges[a].modifiers) :
              (mod[1]..mod[2]) \subseteq Range(chunks[k].lines_idx)

\* C11: the lines_idx of every placeholder chunk of an oversized element, as a set, is
\* the union of the lines_idx of the sub-chunks whose parent is that placeholder.
C11_PlaceholderUnion ==
    \A k \in DOMAIN chunks :
        IsPlaceholder(k)
        => Range(chunks[k].lines_idx)
             = UNION {Range(SubChunksOf(k)[n].lines_idx) : n \in DOMAIN SubChunksOf(k)}

\* The chunk_id under which top-level chunk k was appended: the counter is incremented
\* before every append, so in the script (which does not store it) it is the position
ChunkIdOf(k) == IF impl = "script" THEN k ELSE chunks[k].chunk_id

\* The top-level chunks a sub-chunk's parent_chunk_id refers to
ParentsOf(sc) == {k \in DOMAIN chunks : ChunkIdOf(k) = sc.parent_chunk_id}

\* Top-level chunk k is the entry of an oversized element: it is over budget and its
\* lines_idx ends with the body of an element
OversizedEntry(k) ==
    /\ chunks[k].token_count > max_tokens
    /\ \E a \in DOMAIN element_ranges :
          /\ Len(chunks[k].lines_idx) >= element_ranges[a].end - element_ranges[a].start + 1
          /\ SubSeq(chunks[k].lines_idx,
                    Len(chunks[k].lines_idx) - (element_ranges[a].end - element_ranges[a].start),
                    Len(chunks[k].lines_idx))
               = Interval(element_ranges[a].start, element_ranges[a].end)
          /\ chunks[k].token_count = SumTokens(LinesAt(chunks[k].lines_idx))

\* C12: every sub-chunk carries as parent_chunk_id the chunk_id of exactly one
\* top-level chunk, the placeholder emitted for the oversized element whose lines the
\* sub-chunk holds; in the script the sub-chunks nested in a chunk carry that chunk's id.
C12_ParentLink ==
    /\ \A n \in DOMAIN AllSubChunks :
          /\ Cardinality(ParentsOf(AllSubChunks[n])) = 1
          /\ \A k \in ParentsOf(AllSubChunks[n]) :
                /\ OversizedEntry(k)
                /\ Range(AllSubChunks[n].lines) \subseteq Range(LinesAt(chunks[k].lines_idx))
    /\ impl = "script"
       => \A k \in DOMAIN chunks : \A n \in DOMAIN chunks[k].sub_chunks :
             chunks[k].sub_chunks[n].parent_chunk_id = k

\* C12 witness: a finished run whose placeholder is not the first chunk and has
\* several sub-chunks
C12_Witness ==
    /\ Done
    /\ \E k \in DOMAIN chunks : k >= 2 /\ Len(SubChunksOf(k)) >= 2

\* Occurrences of line i in the flushed chunks and in the accumulator
TotalOccurrences(i) == Occurrences(chunks, i) + CountOf(current_chunk_lines_idx, i)

\* Position p of lines_idx holds a line of a modifier declaration as part of the
\* prepended lines of an element: the whole declaration is there, in order, and what
\* follows it up to the first line of an element that lists the modifier are lines of
\* modifiers of that element
PrependedAt(idx, p) ==
    \E a \in DOMAIN element_ranges :
       \E m \in DOMAIN element_ranges[a].modifiers :
          LET mod == element_ranges[a].modifiers[m]
              first == p - (idx[p] - mod[1])
              own == UNION {r[1]..r[2] : r \in Range(element_ranges[a].modifiers)}
          IN /\ InModifier(mod, idx[p])
             /\ first >= 1
             /\ first + (mod[2] - mod[1]) <= Len(idx)
             /\ SubSeq(idx, first, first + (mod[2] - mod[1])) = Interval(mod[1], mod[2])
             /\ \E q \in DOMAIN idx :
                   /\ q > p
                   /\ idx[q] = element_ranges[a].start
                   /\ \A n \in p..(q - 1) : idx[n] \in own

OnlyPrepended(idx) == \A p \in DOMAIN idx : idx[p] \in ModifierLineSet => PrependedAt(idx, p)

\* C17: a step of the loop with the cursor on a line of a referenced modifier
\* declaration moves the cursor to one past the end of that declaration and adds the
\* line to no chunk; in the chunks and in the accumulator such lines occur only among
\* the prepended modifier lines of an element that lists the modifier.
C17_ModifierLines ==
    [][/\ \A i \in ModifierLineSet :
             (Looping /\ line_idx = i)
             => /\ \E r \in Range(used_modifiers) : InModifier(r, i) /\ line_idx' = r[2] + 1
                /\ TotalOccurrences(i)' = TotalOccurrences(i)
       /\ (\A k \in DOMAIN chunks : OnlyPrepended(chunks[k].lines_idx))'
       /\ OnlyPrepended(current_chunk_lines_idx)']_vars

\* C17 witness: a finished run over a file with two referenced modifier declarations,
\* whose lines are in the output
C17_Witness ==
    /\ Done
    /\ Cardinality(Range(used_modifiers)) = 2
    /\ \A r \in Range(used_modifiers) :
          \E k \in DOMAIN chunks : r[1] \in Range(chunks[k].lines_idx)

\* The lines, lines_idx and token_count of a chunk record
Payload(c) == <<c.lines, c.lines_idx, c.token_count>>

\* C18: every step of the builder leaves the chunk records already in the output list
\* with the same lines, lines_idx and token_count, at the same positions, and the list
\* never gets shorter: it changes only by records appended at its end.
C18_WriteOnce ==
    [][/\ Len(chunks') >= Len(chunks)
       /\ \A k \in DOMAIN chunks :
             /\ Payload(chunks'[k]) = Payload(chunks[k])
             /\ chunks'[k] = chunks[k]]_vars

\* C18 witness: the builder has flushed a chunk with lines and has since started a new
\* accumulator and put lines into it
C18_Witness ==
    /\ pc = "loop"
    /\ Len(chunks) >= 2
    /\ chunks[1].lines # <<>>
    /\ current_chunk # <<>>

\* The accumulator, as the payload of the chunk record a flush makes of it
AccPayload == <<current_chunk, current_chunk_lines_idx, current_tokens>>

\* After the step the output list is the old one plus the old accumulator, and the
\* accumulator holds the cursor line alone
FlushedThenLine ==
    /\ Len(chunks') = Len(chunks) + 1
    /\ SubSeq(chunks', 1, Len(chunks)) = chunks
    /\ Payload(chunks'[Len(chunks')]) = AccPayload
    /\ current_chunk' = <<sol_lines[line_idx]>>
    /\ current_chunk_lines_idx' = <<line_idx>>
    /\ current_tokens' = Len(sol_lines[line_idx])

\* After the step the output list is the old one and the cursor line is at the end of
\* the old accumulator
LineOnAccumulator ==
    /\ chunks' = chunks
    /\ current_chunk' = Append(current_chunk, sol_lines[line_idx])
    /\ current_chunk_lines_idx' = Append(current_chunk_lines_idx, line_idx)
    /\ current_tokens' = current_tokens + Len(sol_lines[line_idx])

\* C19: a step of the loop with the cursor on a contract / library / interface line
\* flushes the accumulator at the boundary exactly when the accumulator is non-empty and
\* one of its lines holds a closing brace, and the line then starts the new
\* accumulator; otherwise the line is handled as a plain line on the accumulator as it
\* is: appended to it, or, when it would pass max_tokens, put after the plain-line flush.
C19_ContractBoundary ==
    [][(Looping /\ contract_pattern(sol_lines[line_idx]))
       => /\ line_idx' = line_idx + 1
          /\ IF /\ current_chunk # <<>>
                /\ \E k \in DOMAIN current_chunk :
                      \E n \in DOMAIN current_chunk[k] : current_chunk[k][n] = "}"
             THEN FlushedThenLine
             ELSE IF current_chunk # <<>> /\ current_tokens + Len(sol_lines[line_idx]) > max_tokens
             THEN FlushedThenLine
             ELSE LineOnAccumulator]_vars

\* C19 witness: a chunk with a closing brace was flushed at a contract line that would
\* have fitted into it, and the contract line is alone in the accumulator
C19_Witness ==
    /\ pc = "loop"
    /\ chunks # <<>>
    /\ HasClosingBrace(chunks[Len(chunks)].lines)
    /\ current_chunk_lines_idx = <<line_idx - 1>>
    /\ \E line \in Range(current_chunk) :
          /\ contract_pattern(line)
          /\ chunks[Len(chunks)].token_count + Len(line) <= max_tokens

\* The modifier is left out of the element at the cursor: one of its line numbers is in
\* the accumulator and the accumulator with the element's body stays within max_tokens
LeftOut(mod, el) ==
    /\ \E i \in mod[1]..mod[2] : \E p \in DOMAIN current_chunk_lines_idx :
          current_chunk_lines_idx[p] = i
    /\ current_tokens + SumTokens(Slice(sol_lines, el.start, el.end)) <= max_tokens

\* The line numbers the element at the cursor is to bring: the declarations of its
\* modifiers that are not left out, in list order, then its own lines
ElementLinesDue(el) ==
    Flatten([k \in DOMAIN el.modifiers |->
                IF LeftOut(el.modifiers[k], el) THEN <<>>
                ELSE Interval(el.modifiers[k][1], el.modifiers[k][2])])
    \o Interval(el.start, el.end)

\* C20: a step of the loop that processes an element brings, into the accumulator or
\* into the element's placeholder, the declaration lines of exactly those modifiers of
\* the element that are not left out, in the order of the modifier list and followed by
\* the element's lines; a modifier is left out if and only if one of its line numbers
\* is in the accumulator's lines_idx and current_tokens plus the tokens of the element
\* body alone is at most max_tokens.
C20_PrependDecision ==
    [][(Looping /\ element_idx < Len(element_ranges)
          /\ line_idx = element_ranges[element_idx + 1].start
          /\ line_idx \notin ModifierLineSet)
       => LET due == ElementLinesDue(element_ranges[element_idx + 1])
          IN \/ /\ chunks' = chunks
                /\ current_chunk_lines_idx' = current_chunk_lines_idx \o due
             \/ /\ Len(chunks') = Len(chunks) + 1
                /\ chunks'[Len(chunks')].lines_idx = current_chunk_lines_idx
                /\ current_chunk_lines_idx' = due
             \/ /\ Len(chunks') > Len(chunks)
                /\ chunks'[Len(chunks')].lines_idx = due
                /\ current_chunk_lines_idx' = <<>>]_vars

\* C20 witness: two elements that list the same modifier are in the accumulator and the
\* modifier's declaration is there once: it was left out of the second element
C20_Witness ==
    /\ Len(element_ranges) = 2
    /\ element_idx = 2
    /\ \A a \in 1..2 : element_ranges[a].start \in Range(current_chunk_lines_idx)
    /\ \E r \in Range(element_ranges[1].modifiers) \cap Range(element_ranges[2].modifiers) :
          CountOf(current_chunk_lines_idx, r[1]) = 1

\* The loop is about to process the next pending element
AtPendingElement ==
    /\ Looping
    /\ element_idx < Len(element_ranges)
    /\ line_idx = element_ranges[element_idx + 1].start
    /\ line_idx \notin ModifierLineSet

\* The sub-chunks the step has added
NewSubChunks ==
    IF impl = "script" THEN chunks'[Len(chunks')].sub_chunks
    ELSE SubSeq(sub_chunks_final', Len(sub_chunks_final) + 1, Len(sub_chunks_final'))

\* C21: a step that processes an element whose lines with the prepended modifiers
\* exceed max_tokens appends the accumulator as a chunk of its own (when it is not
\* empty) and then one placeholder with the element's lines_idx and token count, adds
\* the result of one mini_split call on the combined lines under the placeholder's id,
\* and leaves the accumulator empty with current_tokens = 0.
C21_CaseA ==
    [][LET due == ElementLinesDue(element_ranges[element_idx + 1])
           n == Len(chunks)
           k == IF current_chunk = <<>> THEN 0 ELSE 1
       IN (AtPendingElement /\ SumTokens(LinesAt(due)) > max_tokens)
          => /\ Len(chunks') = n + k + 1
             /\ SubSeq(chunks', 1, n) = chunks
             /\ k = 1 => /\ Payload(chunks'[n + 1]) = AccPayload
                         /\ impl = "script" => chunks'[n + 1].sub_chunks = <<>>
             /\ chunks'[n + k + 1].lines_idx = due
             /\ chunks'[n + k + 1].token_count = SumTokens(LinesAt(due))
             /\ impl = "audit" => SubSeq(sub_chunks_final', 1, Len(sub_chunks_final))
                                    = sub_chunks_final
             /\ NewSubChunks = mini_split(LinesAt(due), max_tokens, chunk_id + k + 1, due[1])
             /\ current_chunk' = <<>>
             /\ current_chunk_lines_idx' = <<>>
             /\ current_tokens' = 0]_vars

\* C21 witness: the loop has just flushed a non-empty accumulator and put the
\* placeholder of an oversized element after it
C21_Witness ==
    /\ pc = "loop"
    /\ Len(chunks) >= 2
    /\ IsPlaceholder(Len(chunks))
    /\ ~IsPlaceholder(Len(chunks) - 1)
    /\ chunks[Len(chunks) - 1].lines # <<>>
    /\ current_chunk = <<>>
    /\ element_idx >= 1
    /\ line_idx = element_ranges[element_idx].end + 1

\* C22: a step that processes an element whose lines with the prepended modifiers are
\* within max_tokens keeps the element whole: when the accumulator is not empty and
\* current_tokens plus the element's tokens exceed max_tokens, the accumulator is
\* flushed and the new accumulator holds exactly the element's lines; otherwise the
\* element's lines are appended to the accumulator and nothing is flushed.  The cursor
\* then is at the element's end + 1 and the element pointer is one further.
C22_ElementWhole ==
    [][LET el == element_ranges[element_idx + 1]
           due == ElementLinesDue(el)
           tokens == SumTokens(LinesAt(due))
       IN (AtPendingElement /\ tokens <= max_tokens)
          => /\ IF current_chunk # <<>> /\ current_tokens + tokens > max_tokens
                THEN /\ Len(chunks') = Len(chunks) + 1
                     /\ SubSeq(chunks', 1, Len(chunks)) = chunks
                     /\ Payload(chunks'[Len(chunks')]) = AccPayload
                     /\ current_chunk' = LinesAt(due)
                     /\ current_chunk_lines_idx' = due
                     /\ current_tokens' = tokens
                ELSE /\ chunks' = chunks
                     /\ current_chunk' = current_chunk \o LinesAt(due)
                     /\ current_chunk_lines_idx' = current_chunk_lines_idx \o due
                     /\ current_tokens' = current_tokens + tokens
             /\ sub_chunks_final' = sub_chunks_final
             /\ line_idx' = el.end + 1
             /\ element_idx' = element_idx + 1]_vars

\* C22 witness: a fitting element that did not fit into the accumulator was put whole
\* into a new one, after the flush of the old one
C22_Witness ==
    /\ pc = "loop"
    /\ chunks # <<>>
    /\ element_idx >= 1
    /\ line_idx = element_ranges[element_idx].end + 1
    /\ current_chunk_lines_idx # <<>>
    /\ current_chunk_lines_idx[Len(current_chunk_lines_idx)] = element_ranges[element_idx].end
    /\ element_ranges[element_idx].start \in Range(current_chunk_lines_idx)
    /\ current_tokens <= max_tokens
    /\ chunks[Len(chunks)].token_count + current_tokens > max_tokens
    /\ ~IsPlaceholder(Len(chunks))

\* The locals of the loop before its first iteration
FirstLocals ==
    [chunks |-> <<>>, current_chunk |-> <<>>, current_chunk_lines_idx |-> <<>>,
     current_tokens |-> 0, chunk_id |-> 0, line_idx |-> 1, element_idx |-> 0,
     sub_chunks_final |-> <<>>, flushed_ref |-> 0]

\* One iteration of the loop of implementation im
Iteration(im, b) ==
    LET b0 == ContractFlush(im, b)
    IN IF Branch(b0) = "modifier"
       THEN [b0 EXCEPT !.line_idx = used_modifiers[found_modifier(b0.line_idx)][2] + 1]
       ELSE IF Branch(b0) = "element" THEN ProcessElement(im, b0)
       ELSE PlainLine(im, b0)

\* What implementation im returns for sol_lines, element_ranges and max_tokens
RECURSIVE Returned(_, _)
Returned(im, b) ==
    IF b.line_idx <= total_lines THEN Returned(im, Iteration(im, b))
    ELSE IF b.current_chunk # <<>> THEN Flush(im, b) ELSE b

\* The sub-chunks of the k-th chunk of a result of implementation im
SubChunksIn(im, res, k) ==
    IF im = "script" THEN res.chunks[k].sub_chunks
    ELSE SelectSeq(res.sub_chunks_final,
                   LAMBDA sc : sc.parent_chunk_id = res.chunks[k].chunk_id)

C29_IdsArePositions ==
    pc \in {"loop", "done"}
    => /\ chunk_id = Len(chunks)
       /\ impl = "audit" => \A k \in DOMAIN chunks : chunks[k].chunk_id = k
       /\ impl = "script"
          => \A k \in DOMAIN chunks :
                \A n \in DOMAIN chunks[k].sub_chunks :
                   chunks[k].sub_chunks[n].parent_chunk_id = k
       /\ impl = "audit"
          => \A n \in DOMAIN sub_chunks_final :
                LET parent == sub_chunks_final[n].parent_chunk_id
                IN /\ parent \in DOMAIN chunks
                   /\ chunks[parent].lines = <<>>
                   /\ chunks[parent].token_count > max_tokens

\* C29 witness: a finished run in which the chunk of an oversized element with its
\* sub-chunks comes third or later, after flushed chunks, and a chunk follows it
C29_Witness ==
    /\ Done
    /\ \E k \in DOMAIN chunks :
          /\ 3 <= k
          /\ k < Len(chunks)
          /\ IsPlaceholder(k)
          /\ \A n \in DOMAIN SubChunksOf(k) : SubChunksOf(k)[n].parent_chunk_id = k

-----------------------------------------------------------------------------
(* to_consecutive_ranges (chunkExtract.py:33-56, fillChunksWithCode.py:36-53).  *)
(* A range string is the sequence of its characters.                           *)

DigitChars == <<"0", "1", "2", "3", "4", "5", "6", "7", "8", "9">>

RECURSIVE Str(_)
\* f"{n}" for n >= 0
Str(n) ==
    IF n < 10 THEN <<DigitChars[n + 1]>>
    ELSE Str(n \div 10) \o <<DigitChars[(n % 10) + 1]>>

\* f"{start}-{prev}"
FormatRange(start, prev) == Str(start) \o <<"-">> \o Str(prev)

RECURSIVE SortedList(_)
\* sorted(lines): every value as often as it occurs
SortedList(lines) ==
    IF lines = <<>> THEN <<>>
    ELSE LET m == CHOOSE x \in Range(lines) : \A y \in Range(lines) : x <= y
             k == CHOOSE j \in DOMAIN lines : lines[j] = m
         IN <<m>> \o SortedList(SubSeq(lines, 1, k - 1) \o SubSeq(lines, k + 1, Len(lines)))

RECURSIVE SortedSet(_)
\* sorted(set(lines))
SortedSet(lines) ==
    IF lines = <<>> THEN <<>>
    ELSE LET m == CHOOSE x \in Range(lines) : \A y \in Range(lines) : x <= y
         IN <<m>> \o SortedSet(SelectSeq(lines, LAMBDA x : x # m))

\* A test that never joins a line to the open range
NeverConsecutive(line, prev) == FALSE

\* if line == prev + 1
Consecutive(line, prev) == line = prev + 1

CodecFrame == UNCHANGED <<builderVars, max_tokens, miniVars, runVars, fillVars>>

\* if not lines: return []
CodecEmpty ==
    /\ codec.pc = "call"
    /\ codec.lines = <<>>
    /\ codec' = [codec EXCEPT !.ranges = <<>>, !.pc = "done"]
    /\ CodecFrame

\* sorted_lines = sorted(set(lines)); ranges = []; start = prev = sorted_lines[0]
CodecSort ==
    /\ codec.pc = "call"
    /\ codec.lines # <<>>
    /\ LET sl == SortedSet(codec.lines)
       IN codec' = [codec EXCEPT !.sorted_lines = sl, !.ranges = <<>>,
                                 !.start = sl[1], !.prev = sl[1], !.i = 1, !.pc = "loop"]
    /\ CodecFrame

\* for line in sorted_lines[1:]: the line continues the open range
CodecExtend ==
    /\ codec.pc = "loop"
    /\ codec.i < Len(codec.sorted_lines)
    /\ LET line == codec.sorted_lines[codec.i + 1]
       IN /\ Consecutive(line, codec.prev)
          /\ codec' = [codec EXCEPT !.prev = line, !.i = @ + 1]
    /\ CodecFrame

\* for line in sorted_lines[1:]: the open range is closed and a new one starts
CodecClose ==
    /\ codec.pc = "loop"
    /\ codec.i < Len(codec.sorted_lines)
    /\ LET line == codec.sorted_lines[codec.i + 1]
       IN /\ ~Consecutive(line, codec.prev)
          /\ codec' = [codec EXCEPT
                 !.ranges = Append(@, FormatRange(codec.start, codec.prev)),
                 !.start = line, !.prev = line, !.i = @ + 1]
    /\ CodecFrame

\* ranges.append(f"{start}-{prev}"); return ranges
CodecReturn ==
    /\ codec.pc = "loop"
    /\ codec.i = Len(codec.sorted_lines)
    /\ codec' = [codec EXCEPT
           !.ranges = Append(@, FormatRange(codec.start, codec.prev)), !.pc = "done"]
    /\ CodecFrame

\* The lists of the docstrings: [3, 1, 2, 5, 6], and the set {1, 2, 3, 5, 6, 9}
CodecExamples == { <<3, 1, 2, 5, 6>>, <<1, 2, 3, 5, 6, 9>> }

\* Line numbers in any order, with or without repeats
CodecInputs == SeqsUpTo(1..MaxLineNo, MaxCodecLen) \cup CodecExamples

InitCodec ==
    /\ \E ls \in CodecInputs :
         codec = [lines |-> ls, sorted_lines |-> <<>>, ranges |-> <<>>,
                  start |-> 0, prev |-> 0, i |-> 0, pc |-> "call"]
    /\ max_tokens = MaxTokens
    /\ BuilderIdle
    /\ MiniIdle
    /\ RunIdle
    /\ FillIdle

NextCodec == CodecEmpty \/ CodecSort \/ CodecExtend \/ CodecClose \/ CodecReturn

SpecCodec == InitCodec /\ [][NextCodec]_vars

-----------------------------------------------------------------------------
(* Properties of to_consecutive_ranges, checked under SpecCodec *)

CodecDone == codec.pc = "done"

RECURSIVE int(_)
\* int(text) of a string of digits
int(text) ==
    IF text = <<>> THEN 0
    ELSE 10 * int(SubSeq(text, 1, Len(text) - 1))
         + (CHOOSE d \in 0..9 : DigitChars[d + 1] = text[Len(text)])

\* map(int, text.split("-")) of a range string "a-b"
SplitRange(text) ==
    LET dash == CHOOSE k \in DOMAIN text :
                    text[k] = "-" /\ \A j \in 1..(k - 1) : text[j] # "-"
    IN <<int(SubSeq(text, 1, dash - 1)), int(SubSeq(text, dash + 1, Len(text)))>>

\* Every returned string has the shape digits "-" digits
WellFormedRange(text) ==
    /\ Cardinality({k \in DOMAIN text : text[k] = "-"}) = 1
    /\ text[1] # "-" /\ text[Len(text)] # "-"
    /\ \A k \in DOMAIN text : text[k] = "-" \/ text[k] \in Range(DigitChars)

\* The returned strings, each expanded into a..b, concatenated
Expanded ==
    Flatten([k \in DOMAIN codec.ranges |->
                Interval(SplitRange(codec.ranges[k])[1], SplitRange(codec.ranges[k])[2])])

\* C13: expanding the returned range strings and concatenating them gives the sorted
\* list of the distinct input values, whatever the order and the repeats of the input;
\* {1,2,3,5,6,9} gives "1-3","5-6","9-9" and [3,1,2,5,6] gives "1-3","5-6".
C13_RoundTrip ==
    CodecDone =>
        /\ \A k \in DOMAIN codec.ranges : WellFormedRange(codec.ranges[k])
        /\ StrictlyIncreasing(Expanded)
        /\ Range(Expanded) = Range(codec.lines)
        /\ codec.lines = <<1, 2, 3, 5, 6, 9>>
           => codec.ranges = << <<"1", "-", "3">>, <<"5", "-", "6">>, <<"9", "-", "9">> >>
        /\ codec.lines = <<3, 1, 2, 5, 6>>
           => codec.ranges = << <<"1", "-", "3">>, <<"5", "-", "6">> >>

\* C13 witness: a returned list for an input out of order with a repeated value, with a
\* range that ends in a two-digit line number
C13_Witness ==
    /\ CodecDone
    /\ ~StrictlyIncreasing(codec.lines)
    /\ Cardinality(Range(codec.lines)) < Len(codec.lines)
    /\ \E k \in DOMAIN codec.ranges : SplitRange(codec.ranges[k])[2] >= 10

\* C14: the returned ranges are in start order, each has start <= end, each starts at
\* least 2 above the end of the one before it, and the empty input gives the empty list.
C14_Minimal ==
    CodecDone =>
        /\ \A k \in DOMAIN codec.ranges :
              SplitRange(codec.ranges[k])[1] <= SplitRange(codec.ranges[k])[2]
        /\ \A k \in DOMAIN codec.ranges :
              k > 1 => SplitRange(codec.ranges[k])[1]
                         >= SplitRange(codec.ranges[k - 1])[2] + 2
        /\ codec.lines = <<>> => codec.ranges = <<>>

\* C14 witness: a returned list of several ranges, one of them longer than one line
C14_Witness ==
    /\ CodecDone
    /\ Len(codec.ranges) >= 2
    /\ \E k \in DOMAIN codec.ranges :
          SplitRange(codec.ranges[k])[1] < SplitRange(codec.ranges[k])[2]

-----------------------------------------------------------------------------
(* One run of the program around the chunk builder: the script                 *)
(* chunkDivision.py (212-402), which chunks every contract listed in           *)
(* splitContracts.jsonl, and the __main__ of testM10CL.py (594-621), which     *)
(* chunks the first .sol file of the contracts folder.                         *)

\* One listed contract: its name, whether its source file exists, and what the file
\* and the element list hold if it does
Contract(name, present, S, els) ==
    [file |-> name, present |-> present, elements |-> els,
     sol_lines |-> FileText(S, els, [i \in PlainPositions(S, els) |-> <<"x", ";">>])]

\* Two contracts: a function with a modifier declared before it, and two one-line
\* functions between plain lines
ContractA(present) ==
    Contract("A", present, {<<1, 1>>}, <<Element(<<2, 3>>, << <<1, 1>> >>)>>)

ContractB(present) ==
    Contract("B", present, {}, <<Element(<<2, 2>>, <<>>), Element(<<3, 3>>, <<>>)>>)

Catalogue == {ContractA(p) : p \in BOOLEAN} \cup {ContractB(p) : p \in BOOLEAN}

\* The contracts the run takes: every line of the jsonl file (script), the first file
\* of the folder only (audit)
ToTake == IF impl = "script" THEN Len(inputs.records) ELSE 1

RunFrame == UNCHANGED <<impl, max_tokens, inputs, miniVars, codecVars, fillVars>>

BuilderUntouched ==
    UNCHANGED <<sol_lines, element_ranges, chunks, current_chunk, current_chunk_lines_idx,
                current_tokens, chunk_id, line_idx, element_idx, sub_chunks_final,
                flushed_ref, pc>>

\* open(jsonl_file) / os.listdir(CONTRACT_FOLDER) raises: the input is not there
InputMissing ==
    /\ run_pc = "start"
    /\ ~inputs.present
    /\ run_pc' = "aborted"
    /\ UNCHANGED <<contract_idx, f_out>>
    /\ BuilderUntouched /\ RunFrame

\* if not sol_files: raise FileNotFoundError (testM10CL.py:603-604)
NoSolFiles ==
    /\ run_pc = "start"
    /\ impl = "audit"
    /\ inputs.present
    /\ inputs.records = <<>>
    /\ run_pc' = "aborted"
    /\ UNCHANGED <<contract_idx, f_out>>
    /\ BuilderUntouched /\ RunFrame

\* The input is open: the loop over its contracts starts
InputOpen ==
    /\ run_pc = "start"
    /\ inputs.present
    /\ impl = "audit" => inputs.records # <<>>
    /\ run_pc' = "next"
    /\ UNCHANGED <<contract_idx, f_out>>
    /\ BuilderUntouched /\ RunFrame

\* SkipMissing that writes a record without chunks for the contract
SkipMissingWritesRecord ==
    /\ run_pc = "next"
    /\ impl = "script"
    /\ contract_idx < ToTake
    /\ ~inputs.records[contract_idx + 1].present
    /\ contract_idx' = contract_idx + 1
    /\ f_out' = Append(f_out, [contract |-> inputs.records[contract_idx + 1].file,
                               chunks |-> <<>>, subchunks |-> <<>>])
    /\ UNCHANGED run_pc
    /\ BuilderUntouched /\ RunFrame

\* if not os.path.exists(sol_path): print(...); continue (chunkDivision.py:228-230)
SkipMissing ==
    /\ run_pc = "next"
    /\ impl = "script"
    /\ contract_idx < ToTake
    /\ ~inputs.records[contract_idx + 1].present
    /\ contract_idx' = contract_idx + 1
    /\ UNCHANGED <<run_pc, f_out>>
    /\ BuilderUntouched /\ RunFrame

\* with open(sol_path) raises FileNotFoundError (testM10CL.py:38, 302)
OpenFails ==
    /\ run_pc = "next"
    /\ impl = "audit"
    /\ contract_idx < ToTake
    /\ ~inputs.records[contract_idx + 1].present
    /\ contract_idx' = contract_idx + 1
    /\ run_pc' = "aborted"
    /\ UNCHANGED f_out
    /\ BuilderUntouched /\ RunFrame

\* sol_lines = fsol.readlines(); element_ranges ...; the locals of the loop
LoadContract ==
    /\ run_pc = "next"
    /\ contract_idx < ToTake
    /\ inputs.records[contract_idx + 1].present
    /\ contract_idx' = contract_idx + 1
    /\ run_pc' = "chunking"
    /\ sol_lines' = inputs.records[contract_idx + 1].sol_lines
    /\ element_ranges' = inputs.records[contract_idx + 1].elements
    /\ chunks' = <<>>
    /\ current_chunk' = <<>>
    /\ current_chunk_lines_idx' = <<>>
    /\ current_tokens' = 0
    /\ chunk_id' = 0
    /\ line_idx' = 1
    /\ element_idx' = 0
    /\ sub_chunks_final' = <<>>
    /\ flushed_ref' = 0
    /\ pc' = "loop"
    /\ UNCHANGED f_out
    /\ RunFrame

\* f_out.write(json.dumps({"contract": ..., "chunks": chunks})) (chunkDivision.py:399-402);
\* return {"chunks": chunks, "subchunks": sub_chunks_final} (testM10CL.py:469-472)
WriteRecord ==
    /\ run_pc = "chunking"
    /\ pc = "done"
    /\ f_out' = Append(f_out, [contract |-> inputs.records[contract_idx].file,
                               chunks |-> chunks, subchunks |-> sub_chunks_final])
    /\ run_pc' = "next"
    /\ UNCHANGED contract_idx
    /\ BuilderUntouched /\ RunFrame

\* The loop over the contracts is over
RunEnd ==
    /\ run_pc = "next"
    /\ contract_idx = ToTake
    /\ run_pc' = "finished"
    /\ UNCHANGED <<contract_idx, f_out>>
    /\ BuilderUntouched /\ RunFrame

InitRun ==
    /\ impl \in {"script", "audit"}
    /\ max_tokens \in BuilderBudgets
    /\ \E p \in BOOLEAN, recs \in SeqsUpTo(Catalogue, MaxContracts) :
          inputs = [present |-> p, records |-> recs]
    /\ contract_idx = 0
    /\ f_out = <<>>
    /\ run_pc = "start"
    /\ sol_lines = <<>>
    /\ element_ranges = <<>>
    /\ chunks = <<>>
    /\ current_chunk = <<>>
    /\ current_chunk_lines_idx = <<>>
    /\ current_tokens = 0
    /\ chunk_id = 0
    /\ line_idx = 1
    /\ element_idx = 0
    /\ sub_chunks_final = <<>>
    /\ flushed_ref = 0
    /\ pc = "idle"
    /\ MiniIdle
    /\ CodecIdle
    /\ FillIdle

NextRun ==
    \/ InputMissing
    \/ NoSolFiles
    \/ InputOpen
    \/ SkipMissing
    \/ OpenFails
    \/ LoadContract
    \/ SkipModifier
    \/ ElementOversized
    \/ ElementNewChunk
    \/ ElementAppend
    \/ PlainStep
    \/ FinalFlush
    \/ WriteRecord
    \/ RunEnd

SpecRun == InitRun /\ [][NextRun]_vars

-----------------------------------------------------------------------------
(* Properties of a run, checked under SpecRun *)

\* The contracts the loop has taken from the input so far
Taken == SubSeq(inputs.records, 1, contract_idx)

\* The names of the contracts a record was written for
Written == [k \in DOMAIN f_out |-> f_out[k].contract]

\* The names of the taken contracts whose source file exists, in input order, without
\* the one still being chunked
DueRecords ==
    LET present == SelectSeq(Taken, LAMBDA c : c.present)
        names == [k \in DOMAIN present |-> present[k].file]
    IN IF run_pc = "chunking" THEN SubSeq(names, 1, Len(names) - 1) ELSE names

\* No candidate input: the input file or folder is missing, or the folder has no .sol file
NoCandidate == ~inputs.present \/ (impl = "audit" /\ inputs.records = <<>>)

\* C15 (as claimed): once a contract whose source file is not found has been taken, or
\* when there is no candidate input, the run is aborted, nothing was written after that
\* point and no later contract was taken.
C15_AbortOnMissing ==
    /\ (NoCandidate /\ run_pc # "start") => (run_pc = "aborted" /\ f_out = <<>>)
    /\ \A i \in 1..contract_idx :
          ~inputs.records[i].present
          => /\ run_pc = "aborted"
             /\ contract_idx = i
             /\ Len(f_out) <= i - 1

\* C15 (amended): no candidate input aborts the run with nothing written.  A source
\* file that is not found aborts the run in testM10CL.py; in chunkDivision.py the
\* contract is skipped: the run never aborts on it, the records written are those of
\* the taken contracts whose file exists, in order, and the run finishes only after
\* every listed contract has been taken.
C15_AbortOrSkip ==
    /\ (NoCandidate /\ run_pc # "start") => (run_pc = "aborted" /\ f_out = <<>>)
    /\ impl = "audit"
       => \A i \in 1..contract_idx :
             ~inputs.records[i].present
             => run_pc = "aborted" /\ contract_idx = i /\ f_out = <<>>
    /\ (impl = "script" /\ inputs.present)
       => /\ run_pc # "aborted"
          /\ Written = DueRecords
          /\ run_pc = "finished" => contract_idx = Len(inputs.records)

\* C15 witness: a finished run of the script that skipped a contract whose file is
\* missing and wrote the record of a later one
C15_Witness ==
    /\ impl = "script"
    /\ run_pc = "finished"
    /\ \E i \in DOMAIN inputs.records, j \in DOMAIN inputs.records :
          i < j /\ ~inputs.records[i].present /\ inputs.records[j].present
    /\ f_out # <<>>

-----------------------------------------------------------------------------
(* The two-element scenario: a file with one function over the budget and one  *)
(* one-line function that fits, around optional plain lines; the large         *)
(* function may use a modifier declared at the top of the file                 *)

PlainOrNone(b) == IF b THEN << <<"x", ";">> >> ELSE <<>>

\* The file and the element list of one scenario: [modifier] [plain] first element
\* [plain] second element [plain]
ScenarioInput(withMod, gap, n, smallFirst, mid, tail) ==
    LET decl == IF withMod THEN <<ModifierText(1, 2), ModifierText(2, 2)>> ELSE <<>>
        big == [k \in 1..n |-> FunctionText(k, n)]
        small == <<FunctionText(1, 1)>>
        first == IF smallFirst THEN small ELSE big
        second == IF smallFirst THEN big ELSE small
        s1 == Len(decl) + Len(PlainOrNone(gap)) + 1
        e1 == s1 + Len(first) - 1
        s2 == e1 + Len(PlainOrNone(mid)) + 1
        e2 == s2 + Len(second) - 1
        mods == IF withMod THEN << <<1, 2>> >> ELSE <<>>
    IN [sol_lines |-> decl \o PlainOrNone(gap) \o first \o PlainOrNone(mid)
                      \o second \o PlainOrNone(tail),
        elements |-> <<Element(<<s1, e1>>, IF smallFirst THEN <<>> ELSE mods),
                       Element(<<s2, e2>>, IF smallFirst THEN mods ELSE <<>>)>>]

ScenarioInputs ==
    {ScenarioInput(withMod, gap, n, smallFirst, mid, tail) :
        withMod \in BOOLEAN, gap \in BOOLEAN, n \in {MaxElemLen, MaxElemLen + 1},
        smallFirst \in BOOLEAN, mid \in BOOLEAN, tail \in BOOLEAN}

\* Budgets between the one-line function (4 tokens) and the large one (6 or more)
ScenarioBudgets == {4, 5}

InitScenario ==
    /\ impl \in {"script", "audit"}
    /\ max_tokens \in ScenarioBudgets
    /\ \E in \in ScenarioInputs :
          /\ sol_lines = in.sol_lines
          /\ element_ranges = in.elements
    /\ chunks = <<>>
    /\ current_chunk = <<>>
    /\ current_chunk_lines_idx = <<>>
    /\ current_tokens = 0
    /\ chunk_id = 0
    /\ line_idx = 1
    /\ element_idx = 0
    /\ sub_chunks_final = <<>>
    /\ flushed_ref = 0
    /\ pc = "loop"
    /\ MiniIdle
    /\ CodecIdle
    /\ FillIdle
    /\ RunIdle

SpecScenario == InitScenario /\ [][Next]_vars

\* Tokens of element a with the modifier declarations it refers to
ElementTokens(a) ==
    LET el == element_ranges[a]
    IN SumTokens(Slice(sol_lines, el.start, el.end))
       + SumTokens(Flatten([k \in DOMAIN el.modifiers |->
                               Slice(sol_lines, el.modifiers[k][1], el.modifiers[k][2])]))

\* C16: in a finished run over a file with one element over max_tokens and one element
\* that fits, exactly one top-level chunk is an oversized placeholder; it is the one of
\* the over-budget element and has at least two sub-chunks whose lines_idx together
\* hold every line of that element; the fitting element lies in a chunk that is not a
\* placeholder and has token_count <= max_tokens.
C16_Scenario ==
    (Done /\ Len(element_ranges) = 2)
    => \A a \in 1..2 :
          LET big == element_ranges[a]
              small == element_ranges[3 - a]
              subs(k) == SubChunksOf(k)
          IN (SumTokens(Slice(sol_lines, big.start, big.end)) > max_tokens
                /\ ElementTokens(3 - a) <= max_tokens)
             => /\ Cardinality({k \in DOMAIN chunks : chunks[k].token_count > max_tokens}) = 1
                /\ \A k \in DOMAIN chunks :
                      chunks[k].token_count > max_tokens
                      => /\ (big.start..big.end) \subseteq Range(chunks[k].lines_idx)
                         /\ Len(subs(k)) >= 2
                         /\ (big.start..big.end)
                               \subseteq UNION {Range(subs(k)[n].lines_idx) : n \in DOMAIN subs(k)}
                /\ \E k \in DOMAIN chunks :
                      /\ (small.start..small.end) \subseteq Range(chunks[k].lines_idx)
                      /\ subs(k) = <<>>
                      /\ chunks[k].token_count <= max_tokens

-----------------------------------------------------------------------------
(* The chunk builder over element lists that need not be well-formed: elements *)
(* may overlap each other and the modifier declarations                        *)

\* What element_ranges.sort(key = start) leaves for any elements with start <= end:
\* at most two, in start order, each with at most one modifier; the declaration of S
\* (if any) is referred to
LooseElementLists(S) ==
    LET mls == {<<>>} \cup {<<r>> : r \in S}
        one == {<<Element(r, ml)>> : r \in Ranges(MaxElemLen), ml \in mls}
        two == {<<Element(p[1], ml), Element(p[2], nl)>> :
                   p \in {x \in Ranges(MaxElemLen) \X Ranges(MaxElemLen) : x[1][1] <= x[2][1]},
                   ml \in mls, nl \in mls}
    IN {els \in {<<>>} \cup one \cup two :
           \A r \in S : \E k \in DOMAIN els : r \in Range(els[k].modifiers)}

InitLoose ==
    /\ impl \in {"script", "audit"}
    /\ max_tokens \in BuilderBudgets
    /\ \E S \in {T \in ModifierSets : Cardinality(T) <= 1} : \E els \in LooseElementLists(S) :
          /\ element_ranges = els
          /\ sol_lines = FileText(S, els, [i \in PlainPositions(S, els) |-> <<"x", ";">>])
    /\ chunks = <<>>
    /\ current_chunk = <<>>
    /\ current_chunk_lines_idx = <<>>
    /\ current_tokens = 0
    /\ chunk_id = 0
    /\ line_idx = 1
    /\ element_idx = 0
    /\ sub_chunks_final = <<>>
    /\ flushed_ref = 0
    /\ pc = "loop"
    /\ MiniIdle
    /\ CodecIdle
    /\ FillIdle
    /\ RunIdle

SpecLoose == InitLoose /\ [][Next]_vars

\* The cursor is on a line of a modifier declaration some element refers to
OnModifierLine == \E r \in Range(used_modifiers) : InModifier(r, line_idx)

\* The cursor is on the start line of the element the pointer is at
OnPendingStart ==
    element_idx < Len(element_ranges) /\ line_idx = element_ranges[element_idx + 1].start

\* C26: every iteration of the main loop moves the cursor forward, to the modifier's
\* end + 1 on a modifier line, to the element's end + 1 on the start of the pending
\* element, by one on any other line, and never beyond N + 1; with the cursor beyond N
\* the loop is left, the accumulator is appended once if it is not empty, and nothing
\* happens after that; no run takes infinitely many steps.
C26_Terminates ==
    /\ [][/\ (pc = "loop" /\ line_idx <= total_lines)
             => /\ pc' = "loop"
                /\ line_idx' > line_idx
                /\ line_idx' <= total_lines + 1
                /\ IF OnModifierLine
                   THEN \E r \in Range(used_modifiers) :
                           InModifier(r, line_idx) /\ line_idx' = r[2] + 1
                   ELSE IF OnPendingStart
                   THEN line_idx' = element_ranges[element_idx + 1].end + 1
                   ELSE line_idx' = line_idx + 1
          /\ (pc = "loop" /\ line_idx > total_lines)
             => /\ pc' = "done"
                /\ IF current_chunk = <<>> THEN chunks' = chunks
                   ELSE /\ Len(chunks') = Len(chunks) + 1
                        /\ SubSeq(chunks', 1, Len(chunks)) = chunks
                        /\ Payload(chunks'[Len(chunks')]) = AccPayload
          /\ pc = "done" => FALSE]_vars
    /\ <>[][FALSE]_vars

\* C26 witness: a finished run that skipped a modifier declaration, processed an
\* element, read a plain line and flushed a last non-empty accumulator
C26_Witness ==
    /\ Done
    /\ ModifierLineSet # {}
    /\ element_idx >= 1
    /\ \E i \in 1..total_lines : sol_lines[i] = <<"x", ";">>
    /\ chunks # <<>>
    /\ chunks[Len(chunks)].lines # <<>>
    /\ SubChunksOf(Len(chunks)) = <<>>

\* The cursor is beyond the start line of the element the pointer is at
PassedPending ==
    element_idx < Len(element_ranges) /\ line_idx > element_ranges[element_idx + 1].start

\* C30: the element pointer changes only in a step taken with the cursor on the start
\* line of the pending element, and then by one; once the cursor is beyond that start
\* line the pointer keeps its value for the rest of the run, and every later
\* iteration either skips a referenced modifier declaration or appends the single line
\* under the cursor to the accumulator: no element is taken as a unit and no sub-chunk
\* is produced any more.
C30_PointerProgress ==
    /\ [][element_idx' # element_idx
            => /\ OnPendingStart
               /\ ~OnModifierLine
               /\ element_idx' = element_idx + 1]_vars
    /\ [][PassedPending
            => /\ PassedPending'
               /\ element_idx' = element_idx
               /\ AllSubChunks' = AllSubChunks
               /\ Looping
                  => IF OnModifierLine
                     THEN current_chunk_lines_idx' \in {current_chunk_lines_idx, <<>>}
                     ELSE /\ line_idx' = line_idx + 1
                          /\ current_chunk_lines_idx'
                                \in {Append(current_chunk_lines_idx, line_idx), <<line_idx>>}
                          /\ current_chunk'[Len(current_chunk')] = sol_lines[line_idx]]_vars

\* C30 witness: a finished run with two elements in which the second starts inside the
\* first and ends after it; the pointer stayed on the second element, whose remaining
\* lines were appended one by one
C30_Witness ==
    /\ Done
    /\ Len(element_ranges) = 2
    /\ element_idx = 1
    /\ element_ranges[2].start <= element_ranges[1].end
    /\ element_ranges[2].end > element_ranges[1].end
    /\ chunks # <<>>
    /\ element_ranges[2].end \in Range(chunks[Len(chunks)].lines_idx)
    /\ AllSubChunks = <<>>

-----------------------------------------------------------------------------
(* fillChunksWithCode.py: the labeled sub-chunks of one chunk are matched with *)
(* the code sub-chunks of the same chunk by their range lists                  *)

RECURSIVE RangesFrom(_, _, _, _, _)
\* for line in sorted_lines[1:]: ...; ranges.append(f"{start}-{prev}")
RangesFrom(sorted_lines, i, start, prev, ranges) ==
    IF i = Len(sorted_lines) THEN Append(ranges, FormatRange(start, prev))
    ELSE LET line == sorted_lines[i + 1]
         IN IF Consecutive(line, prev)
            THEN RangesFrom(sorted_lines, i + 1, start, line, ranges)
            ELSE RangesFrom(sorted_lines, i + 1, line, line,
                            Append(ranges, FormatRange(start, prev)))

\* to_consecutive_ranges(lines), as one value
to_consecutive_ranges(lines) ==
    IF lines = <<>> THEN <<>>
    ELSE LET sorted_lines == SortedSet(lines)
         IN RangesFrom(sorted_lines, 1, sorted_lines[1], sorted_lines[1], <<>>)

\* Candidates that does not look at used_idx
CandidatesAlsoUsed(code_subs, used_idx, label_ranges) ==
    {idx \in DOMAIN code_subs : to_consecutive_ranges(code_subs[idx].lines_idx) = label_ranges}

\* The positions the inner loop can stop at: not in used_idx, code_ranges == label_ranges
Candidates(code_subs, used_idx, label_ranges) ==
    {idx \in DOMAIN code_subs \ used_idx :
        to_consecutive_ranges(code_subs[idx].lines_idx) = label_ranges}

\* for idx, code_sub in enumerate(...): ... break -- the first candidate
FirstOf(S) == CHOOSE idx \in S : \A other \in S : idx <= other

FillFrame == UNCHANGED <<builderVars, max_tokens, miniVars, codecVars, runVars>>

\* matched = code_sub; used_idx.add(idx); out_f.write(...)
SubLabelMatched ==
    /\ fill.pc = "match"
    /\ fill.i < Len(fill.sub_chunks_label)
    /\ LET sub_label == fill.sub_chunks_label[fill.i + 1]
           found == Candidates(fill.code_sub_chunks, fill.used_idx, sub_label.lines_range)
       IN /\ found # {}
          /\ LET matched == fill.code_sub_chunks[FirstOf(found)]
             IN fill' = [fill EXCEPT
                    !.used_idx = @ \cup {FirstOf(found)},
                    !.out_f = Append(@, [lines_range |-> sub_label.lines_range,
                                         code |-> matched.lines,
                                         label |-> sub_label.label,
                                         token_count |-> matched.token_count]),
                    !.i = @ + 1]
    /\ FillFrame

\* matched is None: print("Attenzione: nessun sub-chunk code trovato ...")
SubLabelUnmatched ==
    /\ fill.pc = "match"
    /\ fill.i < Len(fill.sub_chunks_label)
    /\ Candidates(fill.code_sub_chunks, fill.used_idx,
                  fill.sub_chunks_label[fill.i + 1].lines_range) = {}
    /\ fill' = [fill EXCEPT !.i = @ + 1]
    /\ FillFrame

\* The loop over sub_chunks_label is over
FillEnd ==
    /\ fill.pc = "match"
    /\ fill.i = Len(fill.sub_chunks_label)
    /\ fill' = [fill EXCEPT !.pc = "done"]
    /\ FillFrame

\* lines_idx lists of code sub-chunks: two with the same lines in different order,
\* one apart, one that no label refers to
CodeLinesIdx == { <<1, 2>>, <<2, 1>>, <<4>> }

\* The code sub-chunks of one chunk; lines tells them apart
CodeSubChunks ==
    {[k \in DOMAIN q |-> [lines_idx |-> q[k], lines |-> <<"sub", Str(k)>>,
                          token_count |-> Len(q[k])]] :
        q \in SeqsUpTo(CodeLinesIdx, MaxSubs)}

\* The labeled sub-chunks of the chunk: the range lists chunkExtract.py wrote, and one
\* that matches no code sub-chunk
LabelRanges == { to_consecutive_ranges(<<1, 2>>), to_consecutive_ranges(<<4>>),
                 to_consecutive_ranges(<<9>>) }

SubChunksLabel ==
    SeqsUpTo({[lines_range |-> r, label |-> l] : r \in LabelRanges, l \in {0, 1}}, MaxSubs)

InitFill ==
    /\ \E cs \in CodeSubChunks, ls \in SubChunksLabel \ {<<>>} :
          fill = [code_sub_chunks |-> cs, sub_chunks_label |-> ls, used_idx |-> {},
                  i |-> 0, out_f |-> <<>>, pc |-> "match"]
    /\ max_tokens = MaxTokens
    /\ BuilderIdle
    /\ MiniIdle
    /\ CodecIdle
    /\ RunIdle

NextFill == SubLabelMatched \/ SubLabelUnmatched \/ FillEnd

SpecFill == InitFill /\ [][NextFill]_vars

\* The code sub-chunks, not yet used, whose encoded range list is that of the label
EqualUnused(label_ranges) ==
    {idx \in DOMAIN fill.code_sub_chunks :
        /\ idx \notin fill.used_idx
        /\ to_consecutive_ranges(fill.code_sub_chunks[idx].lines_idx) = label_ranges}

\* C28: a step of the matching loop gives the labeled sub-chunk the first code
\* sub-chunk not used so far whose encoded range list equals the label's, marks it as
\* used and writes one record with its lines; when there is none, nothing is written
\* and nothing is marked.  No code sub-chunk is the code of two output records, also
\* when several code sub-chunks have equal range lists.
C28_LabelMatching ==
    [][(fill.pc = "match" /\ fill.i < Len(fill.sub_chunks_label))
       => LET sub_label == fill.sub_chunks_label[fill.i + 1]
              eq == EqualUnused(sub_label.lines_range)
          IN /\ IF eq = {}
                THEN fill'.out_f = fill.out_f /\ fill'.used_idx = fill.used_idx
                ELSE \E idx \in eq :
                        /\ \A other \in eq : idx <= other
                        /\ fill'.used_idx = fill.used_idx \cup {idx}
                        /\ Len(fill'.out_f) = Len(fill.out_f) + 1
                        /\ SubSeq(fill'.out_f, 1, Len(fill.out_f)) = fill.out_f
                        /\ fill'.out_f[Len(fill'.out_f)].code = fill.code_sub_chunks[idx].lines
                        /\ fill'.out_f[Len(fill'.out_f)].lines_range = sub_label.lines_range
                        /\ fill'.out_f[Len(fill'.out_f)].label = sub_label.label
             /\ \A k \in DOMAIN fill.code_sub_chunks :
                   Cardinality({n \in DOMAIN fill'.out_f :
                                   fill'.out_f[n].code = fill.code_sub_chunks[k].lines}) <= 1]_vars

\* C28 witness: two code sub-chunks with equal range lists, two labels with that range
\* list, and each label got its own code sub-chunk
C28_Witness ==
    /\ fill.pc = "done"
    /\ Len(fill.code_sub_chunks) = 2
    /\ to_consecutive_ranges(fill.code_sub_chunks[1].lines_idx)
          = to_consecutive_ranges(fill.code_sub_chunks[2].lines_idx)
    /\ Len(fill.out_f) = 2
    /\ fill.out_f[1].code = fill.code_sub_chunks[1].lines
    /\ fill.out_f[2].code = fill.code_sub_chunks[2].lines

=============================================================================
